---- MODULE Spec2Model ----
(***************************************************************************)
(* Model of the sports odds aggregator: the aggregation cycle              *)
(* (scrapers/scheduler.py), the snapshot file shared between the schedule  *)
(* process and the API process (main.py), and the comparison engine        *)
(* (utils/odds_comparison.py).                                             *)
(***************************************************************************)
EXTENDS Integers, Sequences, FiniteSets, TLC

VARIABLES
    file,          \* content of data/odds.json on disk, a sequence of JSON tokens
    exists,        \* whether data/odds.json exists
    clock,         \* datetime.now(), a logical clock
    pc,            \* per cycle: position inside run_scrapers / update_odds_file
    budget,        \* per cycle: how many more times it may be started
    run,           \* per cycle: how many times it was started
    results,       \* per cycle: what asyncio.gather collects, one slot per adapter
    all_odds,      \* per cycle: the local all_odds of run_scrapers
    existing_data, \* per cycle: the local existing_data of update_odds_file
    outbuf,        \* per cycle: the tokens json.dump produces for the open file
    offset,        \* per cycle: file position of the handle opened with "w"
    ended,         \* per cycle: how the last update_odds_file ended
    lastCommit,    \* history: the document of the commit that completed last
    readObs,       \* what the last API read of the file observed
    reported,      \* per cycle: what the caller of run_scrapers reported when it returned
    mode,          \* the --mode of the run.py process: "schedule" or "scrape"
    cmp_args,      \* compare_odds: its arguments sport_data, event_id, market_type
    cmp_result,    \* compare_odds: the list it returned
    cmp_pc,        \* compare_odds: "call" before it ran, "returned" after
    api_req,       \* API request: the handler, its query parameters, the file it finds
    api_resp,      \* API request: the response of the handler
    api_pc,        \* API request: "request" before the handler ran, "responded" after
    math_call,     \* odds arithmetic: the function called and its argument
    math_result,   \* odds arithmetic: what the call returned
    math_pc,       \* odds arithmetic: "call" before it ran, "returned" after
    scr_call,      \* scrape: the adapter and the page each of its sports answers with
    scr_k,         \* scrape: position of the loop in sports_urls
    scr_results,   \* scrape: the local results
    scr_attempted, \* history: the sports whose fetch was awaited, in order
    scr_pc         \* scrape: "loop" inside the for loop, "returned" after

cycleVars == <<file, exists, clock, pc, budget, run, results, all_odds, existing_data,
               outbuf, offset, ended, lastCommit, readObs,
               reported, mode>>

cmpVars == <<cmp_args, cmp_result, cmp_pc>>

apiVars == <<api_req, api_resp, api_pc>>

mathVars == <<math_call, math_result, math_pc>>

scrVars == <<scr_call, scr_k, scr_results, scr_attempted, scr_pc>>

vars == <<cycleVars, cmpVars, apiVars, mathVars, scrVars>>

\* what the actions of one part of the program leave alone
outsideCycle == <<cmpVars, apiVars, mathVars, scrVars>>
outsideCompare == <<cycleVars, apiVars, mathVars, scrVars>>
outsideApi == <<cycleVars, cmpVars, mathVars, scrVars>>
outsideMath == <<cycleVars, cmpVars, apiVars, scrVars>>
outsideScrape == <<cycleVars, cmpVars, apiVars, mathVars>>

-----------------------------------------------------------------------------
(* Bounds *)

\* how many of the five sports of sports_urls the adapters are asked for
NumSports == 1

\* how many cycles the schedule loop runs in SpecLoop
MaxRuns == 2

\* how many bookmakers quote the outcome in the price inputs of SpecCompare
MaxBooks == 2

\* the American odds converted in SpecMath range over -MaxOdds..MaxOdds
MaxOdds == 120

\* how many legs the odds lists of calculate_arbitrage_opportunity have at most
MaxLegs == 2

\* how many raw events a group and raw markets an event have at most in the
\* payloads of SpecScrape
MaxItems == 2

-----------------------------------------------------------------------------
(* Program constants *)

\* the scrapers list of run_scrapers, in order
Scrapers == <<"DraftKings", "FanDuel", "BetMGM">>

AdapterIds == 1..Len(Scrapers)

\* the keys of sports_urls, in order
SportNames == <<"NFL", "NBA", "MLB", "NHL", "Soccer">>

Sports == {SportNames[k] : k \in 1..NumSports}

\* the two callers of run_scrapers: the schedule loop (its own process) and
\* POST /trigger-scrape (the API process)
Cycles == {"sched", "trig"}

\* None, for last_updated
None == 0

\* the caller of run_scrapers has reported nothing yet
NoReport == [status |-> 0, text |-> ""]

-----------------------------------------------------------------------------
(* Ordered dictionaries: all_odds is a dict of dicts, kept in insertion order *)

\* all_odds[sport][name] = sport_data on a dict of bookmakers
PutBook(books, book, data) ==
    IF \E j \in 1..Len(books) : books[j].book = book
    THEN [j \in 1..Len(books) |->
            IF books[j].book = book THEN [book |-> book, data |-> data] ELSE books[j]]
    ELSE Append(books, [book |-> book, data |-> data])

\* if sport not in all_odds: all_odds[sport] = {} ; all_odds[sport][name] = sport_data
InsertSportData(all, sport, book, data) ==
    IF \E j \in 1..Len(all) : all[j].sport = sport
    THEN [j \in 1..Len(all) |->
            IF all[j].sport = sport
            THEN [sport |-> sport, books |-> PutBook(all[j].books, book, data)]
            ELSE all[j]]
    ELSE Append(all, [sport |-> sport, books |-> <<[book |-> book, data |-> data]>>])

HasSport(all, sport) == \E j \in 1..Len(all) : all[j].sport = sport

BooksOf(all, sport) ==
    LET j == CHOOSE j \in 1..Len(all) : all[j].sport = sport IN all[j].books

HasBook(all, sport, book) ==
    /\ HasSport(all, sport)
    /\ \E j \in 1..Len(BooksOf(all, sport)) : BooksOf(all, sport)[j].book = book

DataOf(all, sport, book) ==
    LET bs == BooksOf(all, sport)
        j == CHOOSE j \in 1..Len(bs) : bs[j].book = book
    IN bs[j].data

-----------------------------------------------------------------------------
(* Adapters: what scrape() hands to gather *)

\* the sport_data adapter i scraped for a sport during the r-th run of cycle c
SportData(c, r, i, sport) ==
    [cycle |-> c, run |-> r, adapter |-> Scrapers[i], sport |-> sport]

RECURSIVE ScrapeDict(_, _, _, _, _)
\* the results dict of scrape(): the sports in S, in sports_urls order
ScrapeDict(c, r, i, S, k) ==
    IF k > Len(SportNames) THEN <<>>
    ELSE IF SportNames[k] \in S
         THEN <<[sport |-> SportNames[k], data |-> SportData(c, r, i, SportNames[k])]>>
              \o ScrapeDict(c, r, i, S, k + 1)
         ELSE ScrapeDict(c, r, i, S, k + 1)

Pending == [st |-> "pending", val |-> <<>>]
Raised == [st |-> "raised", val |-> <<>>]
Returned(d) == [st |-> "returned", val |-> d]

-----------------------------------------------------------------------------
(* run_scrapers: processing of the gathered results *)

RECURSIVE AddResult(_, _, _, _)
\* for sport, sport_data in result.items(): ... all_odds[sport][scrapers[i].name] = sport_data
AddResult(all, i, result, k) ==
    IF k > Len(result) THEN all
    ELSE AddResult(InsertSportData(all, result[k].sport, Scrapers[i], result[k].data),
                   i, result, k + 1)

RECURSIVE ProcessFromAbort(_, _, _)
\* as ProcessFrom, but the first exception ends the loop (break for continue)
ProcessFromAbort(all, res, i) ==
    IF i > Len(Scrapers) THEN all
    ELSE IF res[i].st = "raised"
         THEN all
         ELSE ProcessFromAbort(AddResult(all, i, res[i].val, 1), res, i + 1)

RECURSIVE ProcessFrom(_, _, _)
\* for i, result in enumerate(results): skip exceptions, merge the rest
ProcessFrom(all, res, i) ==
    IF i > Len(Scrapers) THEN all
    ELSE IF res[i].st = "raised"
         THEN ProcessFrom(all, res, i + 1)
         ELSE ProcessFrom(AddResult(all, i, res[i].val, 1), res, i + 1)

ProcessResults(res) == ProcessFrom(<<>>, res, 1)

-----------------------------------------------------------------------------
(* The snapshot document and its JSON text *)

EmptySnapshot == [last_updated |-> None, odds |-> <<>>]

NoData == [cycle |-> "", run |-> 0, adapter |-> "", sport |-> ""]

Tok(t, sport, book, n, data) == [t |-> t, sport |-> sport, book |-> book, n |-> n, data |-> data]

RECURSIVE DumpBooks(_, _, _)
DumpBooks(sport, books, k) ==
    IF k > Len(books) THEN <<>>
    ELSE <<Tok("entry", sport, books[k].book, 0, books[k].data)>>
         \o DumpBooks(sport, books, k + 1)

RECURSIVE DumpOdds(_, _)
DumpOdds(odds, k) ==
    IF k > Len(odds) THEN <<>>
    ELSE DumpBooks(odds[k].sport, odds[k].books, 1) \o DumpOdds(odds, k + 1)

\* json.dump(existing_data, f): the text as a sequence of tokens
Dump(doc) ==
    <<Tok("{", "", "", 0, NoData), Tok("last_updated", "", "", doc.last_updated, NoData)>>
    \o DumpOdds(doc.odds, 1)
    \o <<Tok("}", "", "", 0, NoData)>>

\* whether json.load accepts the text
Parses(text) ==
    /\ Len(text) >= 3
    /\ text[1].t = "{"
    /\ text[2].t = "last_updated"
    /\ text[Len(text)].t = "}"
    /\ \A k \in 3..(Len(text) - 1) : text[k].t = "entry"

RECURSIVE LoadOdds(_, _, _)
LoadOdds(all, text, k) ==
    IF k >= Len(text) THEN all
    ELSE LoadOdds(InsertSportData(all, text[k].sport, text[k].book, text[k].data),
                  text, k + 1)

\* json.load(f) on a text it accepts
Load(text) == [last_updated |-> text[2].n, odds |-> LoadOdds(<<>>, text, 3)]

\* a write of buf at position pos by a handle of its own: bytes beyond the end
\* of the file leave a hole of zero bytes
Hole == Tok("hole", "", "", 0, NoData)

WriteAt(text, pos, buf) ==
    LET n == IF Len(text) > pos + Len(buf) THEN Len(text) ELSE pos + Len(buf)
    IN [k \in 1..n |->
          IF k > pos /\ k <= pos + Len(buf) THEN buf[k - pos]
          ELSE IF k <= Len(text) THEN text[k]
          ELSE Hole]

-----------------------------------------------------------------------------
(* One aggregation cycle: run_scrapers and update_odds_file *)

NoLocals(c) ==
    /\ results' = [results EXCEPT ![c] = [i \in AdapterIds |-> Pending]]
    /\ all_odds' = [all_odds EXCEPT ![c] = <<>>]
    /\ existing_data' = [existing_data EXCEPT ![c] = EmptySnapshot]
    /\ outbuf' = [outbuf EXCEPT ![c] = <<>>]
    /\ offset' = [offset EXCEPT ![c] = 0]

\* run_scrapers is called: the scrape() coroutines are created and handed to gather
Start(c) ==
    /\ pc[c] = "idle"
    /\ budget[c] > 0
    /\ budget' = [budget EXCEPT ![c] = @ - 1]
    /\ pc' = [pc EXCEPT ![c] = "gather"]
    /\ run' = [run EXCEPT ![c] = @ + 1]
    /\ ended' = [ended EXCEPT ![c] = "none"]
    /\ reported' = [reported EXCEPT ![c] = NoReport]
    /\ NoLocals(c)
    /\ UNCHANGED <<file, exists, clock, lastCommit, readObs, mode>>

\* one adapter's scrape() ends: it returns its dict or raises
Settle(c, i) ==
    /\ pc[c] = "gather"
    /\ results[c][i].st \in {"pending", "resumed"}
    /\ \E r \in {Raised} \cup {Returned(ScrapeDict(c, run[c], i, S, 1)) : S \in SUBSET Sports} :
          results' = [results EXCEPT ![c][i] = r]
    /\ UNCHANGED <<file, exists, clock, pc, budget, run, all_odds, existing_data,
                   outbuf, offset, ended, lastCommit, readObs,
                   reported, mode>>

\* a fetch of the adapter gets no response: scrape() stays at the await of
\* fetch_html
Hang(c, i) ==
    /\ pc[c] = "gather"
    /\ results[c][i].st = "pending"
    /\ results' = [results EXCEPT ![c][i] = [st |-> "hung", val |-> <<>>]]
    /\ UNCHANGED <<file, exists, clock, pc, budget, run, all_odds, existing_data,
                   outbuf, offset, ended, lastCommit, readObs,
                   reported, mode>>

\* as FetchTimeout, but the session has no time limit
FetchNeverTimesOut(c, i) ==
    /\ FALSE
    /\ UNCHANGED cycleVars

\* the time limit of the session ends the request with a TimeoutError, which
\* the except clause of fetch_html turns into ""; scrape() goes on
FetchTimeout(c, i) ==
    /\ pc[c] = "gather"
    /\ results[c][i].st = "hung"
    /\ results' = [results EXCEPT ![c][i] = [st |-> "resumed", val |-> <<>>]]
    /\ UNCHANGED <<file, exists, clock, pc, budget, run, all_odds, existing_data,
                   outbuf, offset, ended, lastCommit, readObs,
                   reported, mode>>

\* as Process, but with asyncio.wait(..., return_when=FIRST_COMPLETED) for
\* gather: the results are processed once one scrape() has ended
ProcessFirstCompleted(c) ==
    /\ pc[c] = "gather"
    /\ \E i \in AdapterIds : results[c][i].st \in {"raised", "returned"}
    /\ all_odds' = [all_odds EXCEPT ![c] =
            ProcessResults([i \in AdapterIds |->
                IF results[c][i].st = "returned" THEN results[c][i] ELSE Raised])]
    /\ pc' = [pc EXCEPT ![c] = "update"]
    /\ UNCHANGED <<file, exists, clock, budget, run, results, existing_data,
                   outbuf, offset, ended, lastCommit, readObs,
                   reported, mode>>

\* gather returns once every scrape() has ended; the results are processed
Process(c) ==
    /\ pc[c] = "gather"
    /\ \A i \in AdapterIds : results[c][i].st \in {"raised", "returned"}
    /\ all_odds' = [all_odds EXCEPT ![c] = ProcessResults(results[c])]
    /\ pc' = [pc EXCEPT ![c] = "update"]
    /\ UNCHANGED <<file, exists, clock, budget, run, results, existing_data,
                   outbuf, offset, ended, lastCommit, readObs,
                   reported, mode>>

\* update_odds_file: the existing document is loaded (missing or unparsable: empty)
LoadExisting(c) ==
    /\ pc[c] = "update"
    /\ existing_data' = [existing_data EXCEPT ![c] =
            IF exists /\ Parses(file) THEN Load(file) ELSE EmptySnapshot]
    /\ pc' = [pc EXCEPT ![c] = "loaded"]
    /\ UNCHANGED <<file, exists, clock, budget, run, results, all_odds,
                   outbuf, offset, ended, lastCommit, readObs,
                   reported, mode>>

RECURSIVE MergeInto(_, _, _)
MergeInto(all, odds_data, k) ==
    IF k > Len(odds_data) THEN all
    ELSE MergeInto(
            IF HasSport(all, odds_data[k].sport)
            THEN [j \in 1..Len(all) |->
                    IF all[j].sport = odds_data[k].sport THEN odds_data[k] ELSE all[j]]
            ELSE Append(all, odds_data[k]),
            odds_data, k + 1)

\* as UpdateData, but existing_data["odds"].update(odds_data): the sports of the
\* earlier snapshot that this cycle did not produce stay
UpdateDataMerge(existing, odds_data, now) ==
    [existing EXCEPT !.odds = MergeInto(@, odds_data, 1), !.last_updated = now]

\* existing_data["odds"] = odds_data ; existing_data["last_updated"] = now
UpdateData(existing, odds_data, now) ==
    [existing EXCEPT !.odds = odds_data, !.last_updated = now]

\* the document is updated, the file is opened with "w" (created or truncated)
\* and json.dump fills the buffer of the handle
OpenWrite(c) ==
    /\ pc[c] = "loaded"
    /\ LET doc == UpdateData(existing_data[c], all_odds[c], clock) IN
         /\ existing_data' = [existing_data EXCEPT ![c] = doc]
         /\ outbuf' = [outbuf EXCEPT ![c] = Dump(doc)]
    /\ clock' = clock + 1
    /\ file' = <<>>
    /\ exists' = TRUE
    /\ offset' = [offset EXCEPT ![c] = 0]
    /\ pc' = [pc EXCEPT ![c] = "writing"]
    /\ UNCHANGED <<budget, run, results, all_odds, ended, lastCommit, readObs,
                   reported, mode>>

\* open(ODDS_FILE, "w") raises: the except clause logs, nothing was touched
OpenFail(c) ==
    /\ pc[c] = "loaded"
    /\ pc' = [pc EXCEPT ![c] = "done"]
    /\ ended' = [ended EXCEPT ![c] = "aborted"]
    /\ UNCHANGED <<file, exists, clock, budget, run, results, all_odds, existing_data,
                   outbuf, offset, lastCommit, readObs,
                   reported, mode>>

\* the buffer of the handle fills up: part of the text reaches the file
Flush(c) ==
    /\ pc[c] = "writing"
    /\ \E n \in 1..(Len(outbuf[c]) - offset[c] - 1) :
         /\ file' = WriteAt(file, offset[c], SubSeq(outbuf[c], offset[c] + 1, offset[c] + n))
         /\ offset' = [offset EXCEPT ![c] = @ + n]
    /\ UNCHANGED <<exists, clock, pc, budget, run, results, all_odds, existing_data,
                   outbuf, ended, lastCommit, readObs,
                   reported, mode>>

\* the with block ends: the rest of the text is written and the file closed
Close(c) ==
    /\ pc[c] = "writing"
    /\ file' = WriteAt(file, offset[c], SubSeq(outbuf[c], offset[c] + 1, Len(outbuf[c])))
    /\ offset' = [offset EXCEPT ![c] = Len(outbuf[c])]
    /\ pc' = [pc EXCEPT ![c] = "done"]
    /\ ended' = [ended EXCEPT ![c] = "committed"]
    /\ lastCommit' = existing_data[c]
    /\ UNCHANGED <<exists, clock, budget, run, results, all_odds, existing_data,
                   outbuf, readObs,
                   reported, mode>>

\* a write raises (disk full, I/O error): the except clause logs, the file
\* keeps what had reached it
WriteFail(c) ==
    /\ pc[c] = "writing"
    /\ pc' = [pc EXCEPT ![c] = "done"]
    /\ ended' = [ended EXCEPT ![c] = "aborted"]
    /\ UNCHANGED <<file, exists, clock, budget, run, results, all_odds, existing_data,
                   outbuf, offset, lastCommit, readObs,
                   reported, mode>>

\* what a caller of run_scrapers reports when the call returns: POST
\* /trigger-scrape answers 200 with its message (main.py line 161), run_once
\* prints its message (run.py line 11), schedule_scrapers logs the wait for the
\* next cycle (scheduler.py line 101)
Report(c, m) ==
    IF c = "trig"
    THEN [status |-> 200, text |-> "Scraping process triggered successfully"]
    ELSE IF m = "scrape"
    THEN [status |-> 0,
          text |-> "Scrapers completed successfully. Data saved to data/odds.json"]
    ELSE [status |-> 0, text |-> "Waiting until next scrape"]

\* what a caller reports when run_scrapers raises: POST /trigger-scrape answers
\* 500 (main.py lines 162-163), run_once prints nothing and the process ends
\* with the traceback, schedule_scrapers logs the error (scheduler.py lines 98-99)
ErrorReport(c, m) ==
    IF c = "trig" THEN [status |-> 500, text |-> "error"]
    ELSE IF m = "scrape" THEN [status |-> 1, text |-> "Traceback"]
    ELSE [status |-> 0, text |-> "Error in scheduler"]

\* as Return, but update_odds_file lets the error of a failed commit out:
\* run_scrapers raises and the caller reports the error
ReturnRaising(c) ==
    /\ pc[c] = "done"
    /\ pc' = [pc EXCEPT ![c] = "idle"]
    /\ reported' = [reported EXCEPT ![c] =
            IF ended[c] = "aborted" THEN ErrorReport(c, mode) ELSE Report(c, mode)]
    /\ NoLocals(c)
    /\ UNCHANGED <<file, exists, clock, budget, run, ended, lastCommit, readObs, mode>>

\* update_odds_file and run_scrapers return to the caller, which reports
Return(c) ==
    /\ pc[c] = "done"
    /\ pc' = [pc EXCEPT ![c] = "idle"]
    /\ reported' = [reported EXCEPT ![c] = Report(c, mode)]
    /\ NoLocals(c)
    /\ UNCHANGED <<file, exists, clock, budget, run, ended, lastCommit, readObs, mode>>

-----------------------------------------------------------------------------
(* The API process reads the file *)

\* run_scrapers has no await between the return of gather and its own return
InSyncSection(c) == pc[c] \in {"update", "loaded", "writing", "done"}

\* with open(ODDS_FILE, "r") as f: data = json.load(f)
ReadFile ==
    IF ~(exists /\ Parses(file)) THEN "corrupt"
    ELSE IF \/ file = Dump(lastCommit)
            \/ \E c \in Cycles : pc[c] = "writing" /\ file = outbuf[c]
         THEN "complete"
         ELSE "mixed"

\* a handler of the API (get_odds, compare_bookmakers, get_bookmakers, get_sports)
\* runs on the event loop of the API process
Read ==
    /\ ~InSyncSection("trig")
    /\ readObs = "none"
    /\ readObs' = ReadFile
    /\ UNCHANGED outsideCycle
    /\ UNCHANGED <<file, exists, clock, pc, budget, run, results, all_odds, existing_data,
                   outbuf, offset, ended, lastCommit,
                   reported, mode>>

\* the handler answers (200 or 404 after a complete read, 500 after a failed one)
Respond ==
    /\ readObs # "none"
    /\ readObs' = "none"
    /\ UNCHANGED outsideCycle
    /\ UNCHANGED <<file, exists, clock, pc, budget, run, results, all_odds, existing_data,
                   outbuf, offset, ended, lastCommit,
                   reported, mode>>

-----------------------------------------------------------------------------
(* JSON values of the comparison engine.  A string is a sequence of characters, *)
(* so that str(), lower(), replace() and float() are computed, not assumed.     *)

Null == [k |-> "null", i |-> 0, s |-> <<>>]
I(n) == [k |-> "int", i |-> n, s |-> <<>>]
S(str) == [k |-> "str", i |-> 0, s |-> str]

\* the truth value Python gives a value in `a or b` and `if not a`
Truthy(v) == (v.k = "int" /\ v.i # 0) \/ (v.k = "str" /\ v.s # <<>>)

\* a or b
Or(a, b) == IF Truthy(a) THEN a ELSE b

DigitChars == <<"0", "1", "2", "3", "4", "5", "6", "7", "8", "9">>

IsDigit(ch) == \E d \in 1..Len(DigitChars) : DigitChars[d] = ch

DigitValue(ch) == (CHOOSE d \in 1..Len(DigitChars) : DigitChars[d] = ch) - 1

RECURSIVE NatToStr(_)
NatToStr(n) ==
    IF n < 10 THEN <<DigitChars[n + 1]>>
    ELSE NatToStr(n \div 10) \o <<DigitChars[(n % 10) + 1]>>

\* str(v)
Str(v) ==
    IF v.k = "str" THEN v.s
    ELSE IF v.k = "int"
         THEN IF v.i < 0 THEN <<"-">> \o NatToStr(0 - v.i) ELSE NatToStr(v.i)
         ELSE <<"N", "o", "n", "e">>

\* ch.lower(), for ASCII letters
UpperLetters == <<"A", "B", "C", "D", "E", "F", "G", "H", "I", "J", "K", "L", "M",
                  "N", "O", "P", "Q", "R", "S", "T", "U", "V", "W", "X", "Y", "Z">>
LowerLetters == <<"a", "b", "c", "d", "e", "f", "g", "h", "i", "j", "k", "l", "m",
                  "n", "o", "p", "q", "r", "s", "t", "u", "v", "w", "x", "y", "z">>

LowerChar(ch) ==
    IF \E k \in 1..Len(UpperLetters) : UpperLetters[k] = ch
    THEN LowerLetters[CHOOSE k \in 1..Len(UpperLetters) : UpperLetters[k] = ch]
    ELSE ch

\* str.lower()
Lower(str) == [k \in 1..Len(str) |-> LowerChar(str[k])]

\* needle in hay
Contains(hay, needle) ==
    \E p \in 0..(Len(hay) - Len(needle)) :
        \A k \in 1..Len(needle) : hay[p + k] = needle[k]

\* price.replace("+", "")
RemovePlus(str) == SelectSeq(str, LAMBDA ch : ch # "+")

\* whether float(str) returns: an optional sign and at least one digit (the
\* characters the inputs use are signs, digits and letters that no number holds)
FloatParses(str) ==
    LET body == IF str # <<>> /\ str[1] \in {"-", "+"} THEN Tail(str) ELSE str
    IN body # <<>> /\ \A k \in 1..Len(body) : IsDigit(body[k])

RECURSIVE DigitsValue(_)
DigitsValue(str) ==
    IF str = <<>> THEN 0
    ELSE 10 * DigitsValue(SubSeq(str, 1, Len(str) - 1)) + DigitValue(str[Len(str)])

\* float(str), where it returns
FloatOf(str) ==
    IF str[1] = "-" THEN 0 - DigitsValue(Tail(str))
    ELSE IF str[1] = "+" THEN DigitsValue(Tail(str))
    ELSE DigitsValue(str)

-----------------------------------------------------------------------------
(* Ordered dictionaries of the comparison engine: sequences of key/value pairs *)

HasKey(d, key) == \E j \in 1..Len(d) : d[j].key = key

Get(d, key) == d[CHOOSE j \in 1..Len(d) : d[j].key = key].val

\* d[key] = val
Put(d, key, val) ==
    IF HasKey(d, key)
    THEN [j \in 1..Len(d) |-> IF d[j].key = key THEN [key |-> key, val |-> val] ELSE d[j]]
    ELSE Append(d, [key |-> key, val |-> val])

-----------------------------------------------------------------------------
(* compare_odds *)

\* event.get("id") or event.get("name")
EventKey(event) == Or(event.id, event.name)

\* the negation of: event_id and str(event_key) != str(event_id)
EventMatches(event_key, event_id) ==
    ~Truthy(event_id) \/ Str(event_key) = Str(event_id)

\* one event of one bookmaker, lines 33-52
AddEvent(all_events, bookmaker, event, event_id) ==
    LET event_key == EventKey(event) IN
    IF ~Truthy(event_key) THEN all_events
    ELSE IF ~EventMatches(event_key, event_id) THEN all_events
    ELSE LET base == IF HasKey(all_events, event_key) THEN all_events
                     ELSE Put(all_events, event_key,
                              [id |-> event.id, name |-> event.name,
                               start_time |-> event.start_time, teams |-> event.teams,
                               bookmakers |-> <<>>])
             event_data == Get(base, event_key)
         IN Put(base, event_key,
                [event_data EXCEPT !.bookmakers = Put(@, bookmaker, event.markets)])

RECURSIVE AddEvents(_, _, _, _, _)
\* for event in data["events"]
AddEvents(all_events, bookmaker, events, k, event_id) ==
    IF k > Len(events) THEN all_events
    ELSE AddEvents(AddEvent(all_events, bookmaker, events[k], event_id),
                   bookmaker, events, k + 1, event_id)

RECURSIVE AllEvents(_, _, _, _)
\* for bookmaker, data in sport_data.items(), lines 28-52
AllEvents(all_events, sport_data, b, event_id) ==
    IF b > Len(sport_data) THEN all_events
    ELSE IF ~sport_data[b].val.has_events
         THEN AllEvents(all_events, sport_data, b + 1, event_id)
         ELSE AllEvents(AddEvents(all_events, sport_data[b].key, sport_data[b].val.events,
                                  1, event_id),
                        sport_data, b + 1, event_id)

\* market.get("id") or market.get("name")
MarketKey(market) == Or(market.id, market.name)

\* line 66 raises when market_type is given and the name is no string
FilterRaises(market, market_type) == Truthy(market_type) /\ market.name.k # "str"

\* the negation of: market_type and market_type.lower() not in name.lower()
MarketMatches(market, market_type) ==
    ~Truthy(market_type) \/ Contains(Lower(market.name.s), Lower(market_type.s))

\* one market of one bookmaker, lines 61-79; acc is [raised, all_markets]
AddMarket(acc, bookmaker, market, market_type) ==
    IF acc.raised THEN acc
    ELSE IF ~Truthy(MarketKey(market)) THEN acc
    ELSE IF FilterRaises(market, market_type) THEN [acc EXCEPT !.raised = TRUE]
    ELSE IF ~MarketMatches(market, market_type) THEN acc
    ELSE LET market_key == MarketKey(market)
             base == IF HasKey(acc.all_markets, market_key) THEN acc.all_markets
                     ELSE Put(acc.all_markets, market_key,
                              [id |-> market.id, name |-> market.name, bookmakers |-> <<>>])
             market_data == Get(base, market_key)
         IN [acc EXCEPT !.all_markets =
                Put(base, market_key,
                    [market_data EXCEPT !.bookmakers = Put(@, bookmaker, market.outcomes)])]

RECURSIVE AddMarkets(_, _, _, _, _)
AddMarkets(acc, bookmaker, markets, k, market_type) ==
    IF k > Len(markets) THEN acc
    ELSE AddMarkets(AddMarket(acc, bookmaker, markets[k], market_type),
                    bookmaker, markets, k + 1, market_type)

RECURSIVE AllMarkets(_, _, _, _)
\* for bookmaker, bookmaker_data in event_data["bookmakers"].items(), lines 57-79
AllMarkets(acc, bookmakers, b, market_type) ==
    IF b > Len(bookmakers) THEN acc
    ELSE AllMarkets(AddMarkets(acc, bookmakers[b].key, bookmakers[b].val, 1, market_type),
                    bookmakers, b + 1, market_type)

\* as AddOutcome, but an outcome without a price is not merged
AddOutcomeQuotedOnly(all_outcomes, bookmaker, outcome) ==
    LET outcome_key == outcome.name IN
    IF ~Truthy(outcome_key) \/ outcome.price.k = "null" THEN all_outcomes
    ELSE LET base == IF HasKey(all_outcomes, outcome_key) THEN all_outcomes
                     ELSE Put(all_outcomes, outcome_key,
                              [name |-> outcome_key, bookmakers |-> <<>>])
             outcome_data == Get(base, outcome_key)
         IN Put(base, outcome_key,
                [outcome_data EXCEPT !.bookmakers =
                    Put(@, bookmaker, [price |-> outcome.price, points |-> outcome.points])])

\* one outcome of one bookmaker, lines 89-103
AddOutcome(all_outcomes, bookmaker, outcome) ==
    LET outcome_key == outcome.name IN
    IF ~Truthy(outcome_key) THEN all_outcomes
    ELSE LET base == IF HasKey(all_outcomes, outcome_key) THEN all_outcomes
                     ELSE Put(all_outcomes, outcome_key,
                              [name |-> outcome_key, bookmakers |-> <<>>])
             outcome_data == Get(base, outcome_key)
         IN Put(base, outcome_key,
                [outcome_data EXCEPT !.bookmakers =
                    Put(@, bookmaker, [price |-> outcome.price, points |-> outcome.points])])

RECURSIVE AddOutcomes(_, _, _, _)
AddOutcomes(all_outcomes, bookmaker, outcomes, k) ==
    IF k > Len(outcomes) THEN all_outcomes
    ELSE AddOutcomes(AddOutcome(all_outcomes, bookmaker, outcomes[k]),
                     bookmaker, outcomes, k + 1)

RECURSIVE AllOutcomes(_, _, _)
\* for bookmaker, bookmaker_data in market_data["bookmakers"].items(), lines 85-103
AllOutcomes(all_outcomes, bookmakers, b) ==
    IF b > Len(bookmakers) THEN all_outcomes
    ELSE AllOutcomes(AddOutcomes(all_outcomes, bookmakers[b].key, bookmakers[b].val, 1),
                     bookmakers, b + 1)

\* as IsNumeric, but a string price is skipped instead of converted
IsNumericNoStrings(price) == price.k = "int"

\* lines 111-120: whether the price takes part in the selection
IsNumeric(price) ==
    \/ price.k = "int"
    \/ price.k = "str" /\ FloatParses(RemovePlus(price.s))

\* lines 116-118: the price as a number
Numeric(price) == IF price.k = "int" THEN price.i ELSE FloatOf(RemovePlus(price.s))

NoBest == [some |-> FALSE, price |-> 0, bookmaker |-> ""]

\* as Replaces, with >= for >: a later equal price replaces the best
ReplacesOnTie(price, best) ==
    \/ ~best.some
    \/ price > 0 /\ (best.price <= 0 \/ price >= best.price)
    \/ price < 0 /\ best.price < 0 /\ price >= best.price

\* the condition of lines 123-125
Replaces(price, best) ==
    \/ ~best.some
    \/ price > 0 /\ (best.price <= 0 \/ price > best.price)
    \/ price < 0 /\ best.price < 0 /\ price > best.price

RECURSIVE FindBest(_, _, _)
\* for bookmaker, price_data in outcome_data["bookmakers"].items(), lines 107-127
FindBest(best, bookmakers, b) ==
    IF b > Len(bookmakers) THEN best
    ELSE LET price == bookmakers[b].val.price IN
         IF ~IsNumeric(price) THEN FindBest(best, bookmakers, b + 1)
         ELSE IF Replaces(Numeric(price), best)
              THEN FindBest([some |-> TRUE, price |-> Numeric(price),
                             bookmaker |-> bookmakers[b].key],
                            bookmakers, b + 1)
              ELSE FindBest(best, bookmakers, b + 1)

\* lines 106-130 for one outcome; best_price and best_bookmaker are None
\* when best.some is FALSE
WithBest(outcome_data) ==
    LET best == FindBest(NoBest, outcome_data.bookmakers, 1) IN
    [name |-> outcome_data.name, bookmakers |-> outcome_data.bookmakers,
     has_best |-> best.some, best_price |-> best.price, best_bookmaker |-> best.bookmaker]

\* lines 83-139 for one market
MarketComparison(market_data) ==
    LET all_outcomes == AllOutcomes(<<>>, market_data.bookmakers, 1) IN
    [market |-> [id |-> market_data.id, name |-> market_data.name],
     outcomes |-> [j \in 1..Len(all_outcomes) |-> WithBest(all_outcomes[j].val)]]

\* lines 142-150 for one event
EventComparison(event_data, all_markets) ==
    [event |-> [id |-> event_data.id, name |-> event_data.name,
                start_time |-> event_data.start_time, teams |-> event_data.teams],
     markets |-> [j \in 1..Len(all_markets) |-> MarketComparison(all_markets[j].val)]]

RECURSIVE CompareEventsSkip(_, _, _, _)
\* as CompareEvents, but with the try inside the loop over the events: an event
\* that raises is left out and the events after it are compared
CompareEventsSkip(comparisons, all_events, e, market_type) ==
    IF e > Len(all_events) THEN [comparisons |-> comparisons, raised |-> FALSE]
    ELSE LET event_data == all_events[e].val
             acc == AllMarkets([raised |-> FALSE, all_markets |-> <<>>],
                               event_data.bookmakers, 1, market_type)
         IN IF acc.raised
            THEN CompareEventsSkip(comparisons, all_events, e + 1, market_type)
            ELSE CompareEventsSkip(Append(comparisons,
                                          EventComparison(event_data, acc.all_markets)),
                                   all_events, e + 1, market_type)

RECURSIVE CompareEvents(_, _, _, _)
\* for event_key, event_data in all_events.items(), lines 55-150; an error ends
\* the loop (except clause of line 152)
CompareEvents(comparisons, all_events, e, market_type) ==
    IF e > Len(all_events) THEN [comparisons |-> comparisons, raised |-> FALSE]
    ELSE LET event_data == all_events[e].val
             acc == AllMarkets([raised |-> FALSE, all_markets |-> <<>>],
                               event_data.bookmakers, 1, market_type)
         IN IF acc.raised THEN [comparisons |-> comparisons, raised |-> TRUE]
            ELSE CompareEvents(Append(comparisons, EventComparison(event_data, acc.all_markets)),
                               all_events, e + 1, market_type)

\* the whole of compare_odds, with whether the except clause was taken
CompareRun(sport_data, event_id, market_type) ==
    CompareEvents(<<>>, AllEvents(<<>>, sport_data, 1, event_id), 1, market_type)

\* the list compare_odds returns
compare_odds(sport_data, event_id, market_type) ==
    CompareRun(sport_data, event_id, market_type).comparisons

-----------------------------------------------------------------------------
(* Calls of compare_odds: the inputs are snapshots of the shape the adapters   *)
(* produce (draftkings_scraper.py lines 98-101, 130-136, 158-169)              *)

Outcome(name, price, points) == [name |-> name, price |-> price, points |-> points]

Market(id, name, outcomes) == [id |-> id, name |-> name, outcomes |-> outcomes]

Event(id, name, start_time, markets) ==
    [id |-> id, name |-> name, start_time |-> start_time, teams |-> <<>>,
     markets |-> markets]

BookData(bookmaker, events) ==
    [key |-> bookmaker, val |-> [has_events |-> TRUE, events |-> events]]

Call(sport_data, event_id, market_type) ==
    [sport_data |-> sport_data, event_id |-> event_id, market_type |-> market_type]

\* the orders in which n of the bookmakers can appear in a snapshot
BookOrders(n) ==
    {q \in [1..n -> AdapterIds] : \A a, b \in 1..n : a # b => q[a] # q[b]}

\* prices: absent, American odds as numbers, as signed strings, and strings
\* that are no number
PriceValues ==
    {Null, I(-150), I(-110), I(0), I(100), I(120),
     S(<<"+", "1", "2", "0">>), S(<<"-", "1", "1", "0">>), S(<<"1", "+", "2">>),
     S(<<"x">>), S(<<>>)}

\* one event, one market, one outcome, quoted by n bookmakers in the order q
\* at the prices pr
PriceCall(n, q, pr) ==
    Call([b \in 1..n |->
             BookData(Scrapers[q[b]],
                      <<Event(I(1), S(<<"T">>), S(<<Scrapers[q[b]]>>),
                              <<Market(I(1), S(<<"M", "L">>),
                                       <<Outcome(S(<<"o">>), pr[b], I(q[b]))>>)>>)>>)],
         Null, Null)

EventIdValues == {Null, I(7), S(<<"7">>), S(<<"A">>)}
EventNameValues == {Null, S(<<>>), S(<<"7">>), S(<<"A">>)}
EventFilterValues == {Null, S(<<>>), S(<<"7">>), S(<<"A">>)}

OneMarket(price) == <<Market(I(1), S(<<"M", "L">>), <<Outcome(S(<<"o">>), price, Null)>>)>>

\* two bookmakers with one event each, with and without ids, and an event filter
EventCall(id1, name1, id2, name2, filter) ==
    Call(<<BookData(Scrapers[1], <<Event(id1, name1, S(<<"1">>), OneMarket(I(100)))>>),
           BookData(Scrapers[2], <<Event(id2, name2, S(<<"2">>), OneMarket(I(120)))>>)>>,
         filter, Null)

MarketIdValues == {Null, I(1)}
MarketNameValues == {Null, S(<<>>), S(<<"M", "L">>), S(<<"T", "o", "t">>)}
MarketFilterValues == {Null, S(<<"m", "l">>), S(<<"t">>)}

\* a bookmaker with two events of one market each, a second bookmaker with the
\* first event (or without an events key), and a market filter
MarketCall(mid1, mname1, mid2, mname2, he, filter) ==
    Call(<<BookData(Scrapers[1],
                    <<Event(I(1), S(<<"A">>), Null,
                            <<Market(mid1, mname1, <<Outcome(S(<<"o">>), I(100), Null)>>)>>),
                      Event(I(2), S(<<"B">>), Null,
                            <<Market(mid2, mname2, <<Outcome(S(<<"o">>), I(-110), Null)>>)>>)>>),
           [key |-> Scrapers[2],
            val |-> [has_events |-> he,
                     events |-> <<Event(I(1), S(<<"A">>), Null, OneMarket(I(120)))>>]]>>,
         Null, filter)

OutcomeNameValues == {Null, S(<<>>), S(<<"a">>), S(<<"b">>)}
OutcomePriceValues == {Null, S(<<"x">>), I(-110), I(120)}

\* a second bookmaker quoting one outcome of the market, or none
OtherBooks ==
    {<<>>} \cup
    {<<BookData(Scrapers[2],
                <<Event(I(1), S(<<"A">>), Null,
                        <<Market(I(1), S(<<"M", "L">>),
                                 <<Outcome(n3, p3, I(3))>>)>>)>>)>>
     : n3 \in {S(<<"a">>), S(<<"b">>)}, p3 \in {Null, I(100)}}

\* one bookmaker with a market of two outcomes, alone or with a second
\* bookmaker quoting one outcome of the same market
OutcomeCall(n1, p1, n2, p2, others) ==
    Call(<<BookData(Scrapers[1],
                    <<Event(I(1), S(<<"A">>), Null,
                            <<Market(I(1), S(<<"M", "L">>),
                                     <<Outcome(n1, p1, I(1)), Outcome(n2, p2, I(2))>>)>>)>>)>>
         \o others,
         Null, Null)

\* the calls of compare_odds that are explored
IsCompareCall(args) ==
    \/ \E n \in 1..MaxBooks : \E q \in BookOrders(n), pr \in [1..n -> PriceValues] :
          args = PriceCall(n, q, pr)
    \/ \E id1 \in EventIdValues, name1 \in EventNameValues,
          id2 \in EventIdValues, name2 \in EventNameValues,
          filter \in EventFilterValues :
          args = EventCall(id1, name1, id2, name2, filter)
    \/ \E mid1 \in MarketIdValues, mname1 \in MarketNameValues,
          mid2 \in MarketIdValues, mname2 \in MarketNameValues,
          he \in BOOLEAN, filter \in MarketFilterValues :
          args = MarketCall(mid1, mname1, mid2, mname2, he, filter)
    \/ \E n1 \in OutcomeNameValues, p1 \in OutcomePriceValues,
          n2 \in OutcomeNameValues, p2 \in OutcomePriceValues,
          others \in OtherBooks :
          args = OutcomeCall(n1, p1, n2, p2, others)

\* compare_odds runs on its arguments and returns
Compare ==
    /\ cmp_pc = "call"
    /\ cmp_result' = compare_odds(cmp_args.sport_data, cmp_args.event_id,
                                  cmp_args.market_type)
    /\ cmp_pc' = "returned"
    /\ UNCHANGED cmp_args
    /\ UNCHANGED outsideCompare

-----------------------------------------------------------------------------
(* The read handlers of the API, main.py.  A request finds the snapshot file    *)
(* in a state: missing, unparsable, or holding a document.                     *)

Response(status, message, body) == [status |-> status, message |-> message, body |-> body]

\* except Exception as e: raise HTTPException(status_code=500, detail=str(e))
InternalError == Response(500, "error", <<>>)

\* with open(ODDS_FILE, "r") as f: data = json.load(f) returns
Readable(store) == store.exists /\ store.parses

\* k.lower() for the names of bookmakers, which the model keeps as whole strings
LowerName(name) ==
    IF name \in {"DraftKings", "DRAFTKINGS"} THEN "draftkings"
    ELSE IF name \in {"FanDuel", "FANDUEL"} THEN "fanduel"
    ELSE IF name \in {"BetMGM", "BETMGM"} THEN "betmgm"
    ELSE IF name = "Bet365" THEN "bet365"
    ELSE name

\* {k: v for k, v in data["odds"].items() if k.lower() == sport.lower()}
FilterSport(odds, sport) ==
    SelectSeq(odds, LAMBDA e : Lower(e.key) = Lower(sport.s))

\* lines 66-75: each sport keeps the bookmakers of that name, empty sports go
FilterBookmaker(odds, bookmaker) ==
    SelectSeq([j \in 1..Len(odds) |->
                  [key |-> odds[j].key,
                   val |-> SelectSeq(odds[j].val,
                                     LAMBDA b : LowerName(b.key) = LowerName(bookmaker))]],
              LAMBDA e : e.val # <<>>)

\* GET /odds; the bookmaker parameter is a whole string, "" when it is not given
get_odds(store, sport, bookmaker) ==
    IF ~Readable(store) THEN InternalError
    ELSE IF store.data.odds = <<>> THEN Response(404, "no data", <<>>)
    ELSE LET by_sport == IF Truthy(sport) THEN FilterSport(store.data.odds, sport)
                         ELSE store.data.odds
         IN IF by_sport = <<>> THEN Response(404, "sport", <<>>)
            ELSE LET filtered == IF bookmaker # "" THEN FilterBookmaker(by_sport, bookmaker)
                                 ELSE by_sport
                 IN IF filtered = <<>> THEN Response(404, "bookmaker", <<>>)
                    ELSE Response(200, "", [store.data EXCEPT !.odds = filtered])

\* GET /compare
compare_bookmakers(store, sport, event_id, market) ==
    IF ~Readable(store) THEN InternalError
    ELSE IF FilterSport(store.data.odds, sport) = <<>> THEN Response(404, "sport", <<>>)
    ELSE LET sport_data == FilterSport(store.data.odds, sport)[1].val
             comparison == compare_odds(sport_data, event_id, market)
         IN IF comparison = <<>> THEN Response(404, "criteria", <<>>)
            ELSE Response(200, "", [comparison |-> comparison,
                                    last_updated |-> store.data.last_updated])

\* a handler runs on its request
GetOdds ==
    /\ api_pc = "request"
    /\ api_req.handler = "get_odds"
    /\ api_resp' = get_odds(api_req.store, api_req.sport, api_req.bookmaker)
    /\ api_pc' = "responded"
    /\ UNCHANGED api_req
    /\ UNCHANGED outsideApi

CompareBookmakers ==
    /\ api_pc = "request"
    /\ api_req.handler = "compare_bookmakers"
    /\ api_resp' = compare_bookmakers(api_req.store, api_req.sport, api_req.event_id,
                                      api_req.market)
    /\ api_pc' = "responded"
    /\ UNCHANGED api_req
    /\ UNCHANGED outsideApi

\* the states of the file a request can find
Document(last_updated, odds) == [last_updated |-> last_updated, odds |-> odds]

Store(ex, parses, data) == [exists |-> ex, parses |-> parses, data |-> data]

MissingFile == Store(FALSE, FALSE, Document(Null, <<>>))
CorruptFile == Store(TRUE, FALSE, Document(Null, <<>>))

\* the snapshots of one sport that the requests are answered from
SportDataValues ==
    {MarketCall(I(1), mname1, I(1), mname2, he, Null).sport_data
     : mname1 \in MarketNameValues, mname2 \in MarketNameValues, he \in BOOLEAN}

Stores ==
    {MissingFile, CorruptFile, Store(TRUE, TRUE, Document(Null, <<>>))}
    \cup {Store(TRUE, TRUE, Document(I(1), <<[key |-> <<"N", "F", "L">>, val |-> sd]>>))
          : sd \in SportDataValues}
    \cup {Store(TRUE, TRUE,
                Document(I(1), <<[key |-> <<"N", "B", "A">>, val |-> <<>>],
                                 [key |-> <<"N", "F", "L">>, val |-> sd]>>))
          : sd \in SportDataValues}

SportParams == {S(<<"n", "f", "l">>), S(<<"N", "B", "A">>), S(<<"M", "L", "B">>)}
EventParams == {Null, S(<<"1">>), S(<<"2">>), S(<<"9">>)}
MarketParams == {Null, S(<<"m", "l">>), S(<<"t">>), S(<<"x">>)}
BookmakerParams == {"", "draftkings", "FANDUEL", "Bet365"}

IsRequest(req) ==
    \/ \E store \in Stores, sport \in SportParams \cup {Null}, bookmaker \in BookmakerParams :
          req = [handler |-> "get_odds", store |-> store, sport |-> sport,
                 bookmaker |-> bookmaker, event_id |-> Null, market |-> Null]
    \/ \E store \in Stores, sport \in SportParams, event_id \in EventParams,
          market \in MarketParams :
          req = [handler |-> "compare_bookmakers", store |-> store, sport |-> sport,
                 bookmaker |-> "", event_id |-> event_id, market |-> market]

-----------------------------------------------------------------------------
(* Odds arithmetic, utils/odds_comparison.py lines 157-231, over exact          *)
(* rationals: a number is a fraction n/d in lowest terms with d > 0.           *)

Abs(x) == IF x < 0 THEN 0 - x ELSE x

RECURSIVE Gcd(_, _)
Gcd(a, b) == IF b = 0 THEN a ELSE Gcd(b, a % b)

\* the fraction n/d, d # 0
Frac(n, d) ==
    LET g == Gcd(Abs(n), Abs(d))
        sign == IF d < 0 THEN 0 - 1 ELSE 1
    IN [n |-> sign * (n \div g), d |-> sign * (d \div g)]

Whole(x) == Frac(x, 1)

Plus(a, b) == Frac(a.n * b.d + b.n * a.d, a.d * b.d)
Minus(a, b) == Frac(a.n * b.d - b.n * a.d, a.d * b.d)
Times(a, b) == Frac(a.n * b.n, a.d * b.d)
\* a / b, b # 0
Over(a, b) == Frac(a.n * b.d, a.d * b.n)
Less(a, b) == a.n * b.d < b.n * a.d

\* american_to_decimal, where it returns (abs(american_odds) # 0)
american_to_decimal(american_odds) ==
    IF Less(Whole(0), american_odds)
    THEN Plus(Over(american_odds, Whole(100)), Whole(1))
    ELSE Plus(Over(Whole(100), Frac(Abs(american_odds.n), american_odds.d)), Whole(1))

\* decimal_to_american, where it returns (decimal_odds # 1)
decimal_to_american(decimal_odds) ==
    IF ~Less(decimal_odds, Whole(2))
    THEN Times(Minus(decimal_odds, Whole(1)), Whole(100))
    ELSE Over(Whole(0 - 100), Minus(decimal_odds, Whole(1)))

RECURSIVE Sum(_)
\* sum(list)
Sum(fs) == IF fs = <<>> THEN Whole(0) ELSE Plus(fs[1], Sum(Tail(fs)))

\* what a call returns or that it raised ZeroDivisionError
Value(v) == [raised |-> FALSE, value |-> v]
ZeroDivision == [raised |-> TRUE, value |-> <<>>]

\* as Stakes, but the probabilities are not divided by their sum
StakesUnscaled(implied_probs, total_implied_prob) == implied_probs

\* [prob / total_implied_prob for prob in implied_probs]
Stakes(implied_probs, total_implied_prob) ==
    [k \in 1..Len(implied_probs) |-> Over(implied_probs[k], total_implied_prob)]

\* calculate_arbitrage_opportunity
calculate_arbitrage_opportunity(odds) ==
    IF \E k \in 1..Len(odds) : odds[k] = 0 THEN ZeroDivision
    ELSE LET decimal_odds == [k \in 1..Len(odds) |-> american_to_decimal(Whole(odds[k]))]
             implied_probs == [k \in 1..Len(odds) |-> Over(Whole(1), decimal_odds[k])]
             total_implied_prob == Sum(implied_probs)
         IN IF Less(total_implied_prob, Whole(1))
            THEN IF total_implied_prob = Whole(0) THEN ZeroDivision
                 ELSE Value([arbitrage_exists |-> TRUE,
                             total_implied_probability |-> total_implied_prob,
                             profit_percentage |->
                                 Times(Minus(Over(Whole(1), total_implied_prob), Whole(1)),
                                       Whole(100)),
                             optimal_stakes |-> Stakes(implied_probs, total_implied_prob)])
            ELSE Value([arbitrage_exists |-> FALSE,
                        total_implied_probability |-> total_implied_prob])

\* decimal_to_american(american_to_decimal(a))
RoundTrip ==
    /\ math_pc = "call"
    /\ math_call.fn = "round_trip"
    /\ math_result' = IF math_call.arg = 0 THEN ZeroDivision
                      ELSE Value(decimal_to_american(american_to_decimal(Whole(math_call.arg))))
    /\ math_pc' = "returned"
    /\ UNCHANGED math_call
    /\ UNCHANGED outsideMath

\* calculate_arbitrage_opportunity(odds)
Arbitrage ==
    /\ math_pc = "call"
    /\ math_call.fn = "arbitrage"
    /\ math_result' = calculate_arbitrage_opportunity(math_call.arg)
    /\ math_pc' = "returned"
    /\ UNCHANGED math_call
    /\ UNCHANGED outsideMath

\* the odds of the legs of an arbitrage
LegOdds == {0 - 200, 0 - 110, 0 - 100, 0 - 50, 0, 50, 100, 110, 150, 250}

IsMathCall(call) ==
    \/ \E a \in (0 - MaxOdds)..MaxOdds : call = [fn |-> "round_trip", arg |-> a]
    \/ \E n \in 0..MaxLegs : \E odds \in [1..n -> LegOdds] :
          call = [fn |-> "arbitrage", arg |-> odds]

-----------------------------------------------------------------------------
(* The adapters: scrape, _extract_odds, _parse_event, _parse_market.  The three *)
(* differ in the names of the raw fields and in how the price and the teams    *)
(* are read.  A raw item is what json.loads made of the payload: a dict with   *)
(* its fields, or a value of another shape.                                    *)

RawOutcome(shape, name, price_shape, price, points) ==
    [shape |-> shape, name |-> name, price_shape |-> price_shape, price |-> price,
     points |-> points]

RawMarket(shape, id, name, outcomes_kind, outcomes) ==
    [shape |-> shape, id |-> id, name |-> name, outcomes_kind |-> outcomes_kind,
     outcomes |-> outcomes]

RawEvent(shape, id, name, teams_kind, offers_kind, offers) ==
    [shape |-> shape, id |-> id, name |-> name, teams_kind |-> teams_kind,
     offers_kind |-> offers_kind, offers |-> offers]

RawGroup(shape, events_kind, events) ==
    [shape |-> shape, events_kind |-> events_kind, events |-> events]

\* a price that is a JSON object
DictPrice == [k |-> "dict", i |-> 0, s |-> <<>>]

\* the statement that builds outcome_data raises: outcome.get on a value that is
\* no dict; for BetMGM also .get('american') on a price that is no dict
OutcomeRaises(i, o) ==
    \/ o.shape # "dict"
    \/ Scrapers[i] = "BetMGM" /\ o.price_shape \in {"null", "number"}

\* outcome_data, lines 158-162
ParseOutcome(i, o) ==
    Outcome(o.name,
            IF o.price_shape \in {"absent", "null"} THEN Null
            ELSE IF o.price_shape = "dict" /\ Scrapers[i] # "BetMGM" THEN DictPrice
            ELSE o.price,
            o.points)

\* the try block of _parse_market raises
MarketRaises(i, m) ==
    \/ m.shape # "dict"
    \/ m.outcomes_kind = "null"
    \/ m.outcomes_kind = "list" /\ \E k \in 1..Len(m.outcomes) : OutcomeRaises(i, m.outcomes[k])

\* what _parse_market returns where it does not raise, lines 151-169
ParseMarket(i, m) ==
    Market(m.id, m.name,
           IF m.outcomes_kind = "list"
           THEN [k \in 1..Len(m.outcomes) |-> ParseOutcome(i, m.outcomes[k])]
           ELSE <<>>)

\* a market of the event stops the loop over the markets, and so the event
ParseMarketsAbort(i, offers) ==
    IF \E k \in 1..Len(offers) : MarketRaises(i, offers[k]) THEN <<>>
    ELSE [k \in 1..Len(offers) |-> ParseMarket(i, offers[k])]

\* lines 124-128: the markets of the offers for which _parse_market returned a
\* non-empty dict ({} after an exception)
ParseMarkets(i, offers) ==
    LET kept == SelectSeq(offers, LAMBDA m : ~MarketRaises(i, m))
    IN [k \in 1..Len(kept) |-> ParseMarket(i, kept[k])]

\* the try block of _parse_event raises: event.get on a value that is no dict,
\* a participant that is no dict (not for DraftKings, which reads teamName1 and
\* teamName2), offers that cannot be iterated
EventRaises(i, e) ==
    \/ e.shape # "dict"
    \/ Scrapers[i] # "DraftKings" /\ e.teams_kind = "bad"
    \/ e.offers_kind = "null"

\* what _parse_event returns where it does not raise, lines 113-136
ParseEvent(i, e) ==
    [Event(e.id, e.name, Null,
           IF e.offers_kind = "list" THEN ParseMarkets(i, e.offers) ELSE <<>>)
     EXCEPT !.teams = IF e.teams_kind = "absent" THEN <<>> ELSE <<"home", "away">>]

\* the events of one group, lines 86-89
ParseEvents(i, events) ==
    LET kept == SelectSeq(events, LAMBDA e : ~EventRaises(i, e))
    IN [k \in 1..Len(kept) |-> ParseEvent(i, kept[k])]

\* the walk of lines 83-89 raises: the list of groups or a list of events
\* cannot be iterated, or a group is no container
WalkRaises(payload) ==
    \/ payload.groups_kind = "null"
    \/ payload.groups_kind = "list" /\
         \E g \in 1..Len(payload.groups) :
             \/ payload.groups[g].shape # "dict"
             \/ payload.groups[g].events_kind = "null"

RECURSIVE WalkGroups(_, _, _)
\* the events list after the walk over the groups
WalkGroups(i, groups, g) ==
    IF g > Len(groups) THEN <<>>
    ELSE (IF groups[g].events_kind = "list" THEN ParseEvents(i, groups[g].events) ELSE <<>>)
         \o WalkGroups(i, groups, g + 1)

\* return {}
NoSportData == [has_events |-> FALSE, events |-> <<>>]

\* as extract_odds, but a payload without events gives {}
extract_odds_nonempty(i, page) ==
    IF ~page.marker \/ ~page.assignment \/ ~page.json_valid THEN NoSportData
    ELSE IF WalkRaises(page.payload) THEN NoSportData
    ELSE IF page.payload.groups_kind # "list" \/ WalkGroups(i, page.payload.groups, 1) = <<>>
         THEN NoSportData
         ELSE [has_events |-> TRUE, events |-> WalkGroups(i, page.payload.groups, 1)]

\* _extract_odds on the parsed page
extract_odds(i, page) ==
    IF ~page.marker \/ ~page.assignment \/ ~page.json_valid THEN NoSportData
    ELSE IF WalkRaises(page.payload) THEN NoSportData
    ELSE [has_events |-> TRUE,
          events |-> IF page.payload.groups_kind = "list"
                     THEN WalkGroups(i, page.payload.groups, 1)
                     ELSE <<>>]

\* fetch_html: the text of a 200 response, "" otherwise (lines 50-57)
HasHtml(page) == page.fetch = "ok" /\ ~page.empty_body

\* as ScrapeSport, but a fetch without html ends the loop (break for continue)
ScrapeSportBreak ==
    /\ scr_pc = "loop"
    /\ scr_k <= Len(SportNames)
    /\ LET page == scr_call.pages[scr_k]
           sport_data == extract_odds(scr_call.adapter, page)
       IN /\ scr_results' = IF HasHtml(page) /\ sport_data.has_events
                            THEN Put(scr_results, SportNames[scr_k], sport_data)
                            ELSE scr_results
          /\ scr_k' = IF HasHtml(page) THEN scr_k + 1 ELSE Len(SportNames) + 1
    /\ scr_attempted' = Append(scr_attempted, SportNames[scr_k])
    /\ UNCHANGED <<scr_call, scr_pc>>
    /\ UNCHANGED outsideScrape

\* one turn of the loop of scrape (lines 25-42): the fetch is awaited, the page
\* parsed, the sport entered into results if _extract_odds gave a non-empty dict
ScrapeSport ==
    /\ scr_pc = "loop"
    /\ scr_k <= Len(SportNames)
    /\ LET page == scr_call.pages[scr_k]
           sport_data == extract_odds(scr_call.adapter, page)
       IN scr_results' = IF HasHtml(page) /\ sport_data.has_events
                         THEN Put(scr_results, SportNames[scr_k], sport_data)
                         ELSE scr_results
    /\ scr_attempted' = Append(scr_attempted, SportNames[scr_k])
    /\ scr_k' = scr_k + 1
    /\ UNCHANGED <<scr_call, scr_pc>>
    /\ UNCHANGED outsideScrape

\* return results (line 45)
ScrapeReturn ==
    /\ scr_pc = "loop"
    /\ scr_k > Len(SportNames)
    /\ scr_pc' = "returned"
    /\ UNCHANGED <<scr_call, scr_k, scr_results, scr_attempted>>
    /\ UNCHANGED outsideScrape

\* the pages the sports answer with
Payload(groups_kind, groups) == [groups_kind |-> groups_kind, groups |-> groups]

Page(fetch, empty_body, marker, assignment, json_valid, payload) ==
    [fetch |-> fetch, empty_body |-> empty_body, marker |-> marker,
     assignment |-> assignment, json_valid |-> json_valid, payload |-> payload]

\* a 200 response whose script carries the payload
PageOf(payload) == Page("ok", FALSE, TRUE, TRUE, TRUE, payload)

\* a non-200 status, a network error, a time-out
FailedPage(fetch) == Page(fetch, FALSE, FALSE, FALSE, FALSE, Payload("absent", <<>>))

\* the shape of price the adapter reads a number from
QuotedShape(i) == IF Scrapers[i] = "BetMGM" THEN "dict" ELSE "number"

OutcomeOf(price_shape) == RawOutcome("dict", S(<<"o">>), price_shape, I(0 - 110), Null)

MarketShapes ==
    {"ok", "no dict", "no outcomes", "null outcomes", "bad outcome",
     "number price", "dict price", "null price"}

\* the raw market number id of a shape
MarketOf(i, shape, id) ==
    IF shape = "no dict" THEN RawMarket("other", Null, Null, "absent", <<>>)
    ELSE IF shape = "no outcomes" THEN RawMarket("dict", I(id), S(<<"M", "L">>), "absent", <<>>)
    ELSE IF shape = "null outcomes" THEN RawMarket("dict", I(id), S(<<"M", "L">>), "null", <<>>)
    ELSE RawMarket("dict", I(id), S(<<"M", "L">>), "list",
            IF shape = "bad outcome"
            THEN <<OutcomeOf(QuotedShape(i)),
                   RawOutcome("other", Null, "absent", Null, Null)>>
            ELSE IF shape = "number price" THEN <<OutcomeOf("number")>>
            ELSE IF shape = "dict price" THEN <<OutcomeOf("dict")>>
            ELSE IF shape = "null price" THEN <<OutcomeOf("null")>>
            ELSE <<OutcomeOf(QuotedShape(i))>>)

EventShapes == {"ok", "no dict", "bad teams", "null offers", "no offers"}

\* the raw event number id of a shape
EventOf(i, shape, id) ==
    IF shape = "no dict" THEN RawEvent("other", Null, Null, "absent", "absent", <<>>)
    ELSE IF shape = "bad teams"
         THEN RawEvent("dict", I(id), S(<<"A">>), "bad", "list", <<MarketOf(i, "ok", 1)>>)
    ELSE IF shape = "null offers"
         THEN RawEvent("dict", I(id), S(<<"A">>), "list", "null", <<>>)
    ELSE IF shape = "no offers"
         THEN RawEvent("dict", I(id), S(<<"A">>), "list", "absent", <<>>)
    ELSE RawEvent("dict", I(id), S(<<"A">>), "list", "list", <<MarketOf(i, "ok", 1)>>)

\* the pages on which the extraction is decided
ExtractionPages(i) ==
    {Page("ok", TRUE, FALSE, FALSE, FALSE, Payload("absent", <<>>)),
     Page("ok", FALSE, FALSE, FALSE, FALSE, Payload("absent", <<>>)),
     Page("ok", FALSE, TRUE, FALSE, FALSE, Payload("absent", <<>>)),
     Page("ok", FALSE, TRUE, TRUE, FALSE, Payload("absent", <<>>)),
     PageOf(Payload("absent", <<>>)),
     PageOf(Payload("null", <<>>)),
     PageOf(Payload("list", <<>>)),
     PageOf(Payload("list", <<RawGroup("dict", "absent", <<>>)>>)),
     PageOf(Payload("list", <<RawGroup("dict", "list", <<>>)>>)),
     PageOf(Payload("list", <<RawGroup("dict", "list", <<EventOf(i, "ok", 1)>>),
                              RawGroup("other", "absent", <<>>)>>)),
     PageOf(Payload("list", <<RawGroup("dict", "list", <<EventOf(i, "ok", 1)>>),
                              RawGroup("dict", "null", <<>>)>>))}

\* a page of one group of events of the given shapes, and a second group
EventsPage(i, shapes) ==
    PageOf(Payload("list",
        <<RawGroup("dict", "list", [k \in 1..Len(shapes) |-> EventOf(i, shapes[k], k)]),
          RawGroup("dict", "list", <<EventOf(i, "ok", 9)>>)>>))

\* a page of one event with markets of the given shapes, and a second event
MarketsPage(i, shapes) ==
    PageOf(Payload("list",
        <<RawGroup("dict", "list",
             <<RawEvent("dict", I(1), S(<<"A">>), "list", "list",
                        [k \in 1..Len(shapes) |-> MarketOf(i, shapes[k], k)]),
               EventOf(i, "ok", 2)>>)>>))

SimplePage(i) == PageOf(Payload("list", <<RawGroup("dict", "list", <<EventOf(i, "ok", 1)>>)>>))

FetchOutcomes == {"ok", "status", "error", "timeout"}

\* the first sport answers with the page, the others fail with the status
FirstPage(page) ==
    [k \in 1..Len(SportNames) |-> IF k = 1 THEN page ELSE FailedPage("status")]

IsScrapeCall(call) ==
    \/ \E i \in AdapterIds : \E f \in [1..Len(SportNames) -> FetchOutcomes] :
          call = [adapter |-> i,
                  pages |-> [k \in 1..Len(SportNames) |->
                                IF f[k] = "ok" THEN SimplePage(i) ELSE FailedPage(f[k])]]
    \/ \E i \in AdapterIds : \E page \in ExtractionPages(i) :
          call = [adapter |-> i, pages |-> FirstPage(page)]
    \/ \E i \in AdapterIds : \E n \in 1..MaxItems : \E shapes \in [1..n -> EventShapes] :
          call = [adapter |-> i, pages |-> FirstPage(EventsPage(i, shapes))]
    \/ \E i \in AdapterIds : \E n \in 1..MaxItems : \E shapes \in [1..n -> MarketShapes] :
          call = [adapter |-> i, pages |-> FirstPage(MarketsPage(i, shapes))]

-----------------------------------------------------------------------------
(* Specifications *)

InitLocals ==
    /\ clock = 1
    /\ pc = [c \in Cycles |-> "idle"]
    /\ run = [c \in Cycles |-> 0]
    /\ results = [c \in Cycles |-> [i \in AdapterIds |-> Pending]]
    /\ all_odds = [c \in Cycles |-> <<>>]
    /\ existing_data = [c \in Cycles |-> EmptySnapshot]
    /\ outbuf = [c \in Cycles |-> <<>>]
    /\ offset = [c \in Cycles |-> 0]
    /\ ended = [c \in Cycles |-> "none"]
    /\ lastCommit = EmptySnapshot
    /\ readObs = "none"
    /\ reported = [c \in Cycles |-> NoReport]

\* no call of compare_odds
NoCompare ==
    /\ cmp_args = [sport_data |-> <<>>, event_id |-> Null, market_type |-> Null]
    /\ cmp_result = <<>>
    /\ cmp_pc = "none"

\* no API request under study
NoApi ==
    /\ api_req = [handler |-> "none"]
    /\ api_resp = [status |-> 0]
    /\ api_pc = "none"

\* no call of the odds arithmetic
NoMath ==
    /\ math_call = [fn |-> "none"]
    /\ math_result = <<>>
    /\ math_pc = "none"

\* no scrape under study
NoScrape ==
    /\ scr_call = [adapter |-> 0]
    /\ scr_k = 0
    /\ scr_results = <<>>
    /\ scr_attempted = <<>>
    /\ scr_pc = "none"

\* nothing but the aggregation cycle
OnlyCycle == NoCompare /\ NoApi /\ NoMath /\ NoScrape

\* the API process has started (main.py creates the file) and so has the
\* schedule process; one scheduled run and one triggered run
Init ==
    /\ InitLocals
    /\ mode = "schedule"
    /\ OnlyCycle
    /\ exists = TRUE
    /\ file = Dump(EmptySnapshot)
    /\ budget = [c \in Cycles |-> 1]

Cycle(c) ==
    /\ \/ Start(c)
       \/ \E i \in AdapterIds : Settle(c, i)
       \/ Process(c)
       \/ LoadExisting(c)
       \/ OpenWrite(c)
       \/ OpenFail(c)
       \/ Flush(c)
       \/ Close(c)
       \/ WriteFail(c)
       \/ Return(c)
    /\ UNCHANGED outsideCycle

Next ==
    \/ \E c \in Cycles : Cycle(c)
    \/ Read
    \/ Respond

Spec == Init /\ [][Next]_vars

\* the schedule process alone (run.py --mode schedule): schedule_scrapers runs
\* one cycle after the other; the file may be missing at the first one
InitLoop ==
    /\ InitLocals
    /\ mode = "schedule"
    /\ OnlyCycle
    /\ exists \in BOOLEAN
    /\ file = IF exists THEN Dump(EmptySnapshot) ELSE <<>>
    /\ budget = [c \in Cycles |-> IF c = "sched" THEN MaxRuns ELSE 0]

NextLoop == Cycle("sched")

SpecLoop == InitLoop /\ [][NextLoop]_vars

\* one cycle of the schedule process on a disk that takes the writes, with
\* fetches that may get no response; every step that can be taken is taken
\* in the end (the event loop runs the ready tasks, the timer of a session
\* fires)
InitLive ==
    /\ InitLocals
    /\ mode = "schedule"
    /\ OnlyCycle
    /\ exists \in BOOLEAN
    /\ file = IF exists THEN Dump(EmptySnapshot) ELSE <<>>
    /\ budget = [c \in Cycles |-> IF c = "sched" THEN 1 ELSE 0]

LiveCycle(c) ==
    /\ \/ Start(c)
       \/ \E i \in AdapterIds : Settle(c, i)
       \/ \E i \in AdapterIds : Hang(c, i)
       \/ \E i \in AdapterIds : FetchTimeout(c, i)
       \/ Process(c)
       \/ LoadExisting(c)
       \/ OpenWrite(c)
       \/ Flush(c)
       \/ Close(c)
       \/ Return(c)
    /\ UNCHANGED outsideCycle

NextLive == LiveCycle("sched")

SpecLive == InitLive /\ [][NextLive]_vars /\ WF_vars(NextLive)

\* one call of run_scrapers by one of its callers, on a disk where an open or a
\* write may fail: POST /trigger-scrape, the schedule loop, or the one-shot
\* scrape mode (run.py --mode scrape)
InitReport ==
    /\ InitLocals
    /\ OnlyCycle
    /\ exists \in BOOLEAN
    /\ file = IF exists THEN Dump(EmptySnapshot) ELSE <<>>
    /\ \E caller \in Cycles :
          /\ mode \in IF caller = "trig" THEN {"schedule"} ELSE {"schedule", "scrape"}
          /\ budget = [c \in Cycles |-> IF c = caller THEN 1 ELSE 0]

NextReport == \E c \in Cycles : Cycle(c)

SpecReport == InitReport /\ [][NextReport]_vars

\* a call of compare_odds (by compare_bookmakers) on a snapshot
\* no cycle is started
NoCycle ==
    /\ InitLocals
    /\ mode = "schedule"
    /\ exists = TRUE
    /\ file = Dump(EmptySnapshot)
    /\ budget = [c \in Cycles |-> 0]

InitCompare ==
    /\ NoCycle
    /\ NoApi
    /\ NoMath
    /\ NoScrape
    /\ IsCompareCall(cmp_args)
    /\ cmp_result = <<>>
    /\ cmp_pc = "call"

NextCompare == Compare

SpecCompare == InitCompare /\ [][NextCompare]_vars

\* one request to a read handler of the API
InitApi ==
    /\ NoCycle
    /\ NoCompare
    /\ NoMath
    /\ NoScrape
    /\ IsRequest(api_req)
    /\ api_resp = [status |-> 0]
    /\ api_pc = "request"

NextApi == GetOdds \/ CompareBookmakers

SpecApi == InitApi /\ [][NextApi]_vars

\* one call of the odds arithmetic
InitMath ==
    /\ NoCycle
    /\ NoCompare
    /\ NoApi
    /\ NoScrape
    /\ IsMathCall(math_call)
    /\ math_result = <<>>
    /\ math_pc = "call"

NextMath == RoundTrip \/ Arbitrage

SpecMath == InitMath /\ [][NextMath]_vars

\* one call of scrape of one adapter
InitScrape ==
    /\ NoCycle
    /\ NoCompare
    /\ NoApi
    /\ NoMath
    /\ IsScrapeCall(scr_call)
    /\ scr_k = 1
    /\ scr_results = <<>>
    /\ scr_attempted = <<>>
    /\ scr_pc = "loop"

NextScrape == ScrapeSport \/ ScrapeReturn

SpecScrape == InitScrape /\ [][NextScrape]_vars

-----------------------------------------------------------------------------
(* Properties of the aggregation cycle *)

KeysOf(result) == {result[k].sport : k \in 1..Len(result)}

\* C1: when a cycle has committed, the persisted odds hold, for every adapter
\* that returned, exactly the sports it returned, under its bookmaker name and
\* with the data it returned, and no entry at all for an adapter that raised.
C1_PartialFailureCommits ==
    \A c \in Cycles :
        (pc[c] = "done" /\ ended[c] = "committed") =>
            /\ exists
            /\ Parses(file)
            /\ LET odds == Load(file).odds IN
                 /\ \A j \in 1..Len(odds) : odds[j].sport \in Sports
                 /\ \A i \in AdapterIds : \A s \in Sports :
                       IF results[c][i].st = "returned" /\ s \in KeysOf(results[c][i].val)
                       THEN /\ HasBook(odds, s, Scrapers[i])
                            /\ DataOf(odds, s, Scrapers[i]) = SportData(c, run[c], i, s)
                       ELSE ~HasBook(odds, s, Scrapers[i])

\* C1 witness: a cycle has committed although the first adapter raised, and the
\* two others returned a sport
C1_Witness ==
    \E c \in Cycles :
        /\ pc[c] = "done" /\ ended[c] = "committed"
        /\ results[c][1].st = "raised"
        /\ \A i \in {2, 3} : results[c][i].st = "returned" /\ results[c][i].val # <<>>
        /\ Parses(file) /\ Len(Load(file).odds) > 0

\* C2: a read of the file by an API handler never observes anything but a
\* complete snapshot, the previous one or the one being committed.
C2_ReadsSeeCompleteSnapshot == readObs \in {"none", "complete"}

\* C3: when the commit of a cycle has failed, the persisted snapshot is still the
\* one the last successful commit left.
C3_FailedWriteKeepsPrior ==
    \A c \in Cycles :
        (pc[c] = "done" /\ ended[c] = "aborted" /\ lastCommit.last_updated # None) =>
            (exists /\ file = Dump(lastCommit))

\* C4: when a cycle has committed, the persisted odds are exactly the mapping the
\* cycle merged (nothing of an earlier snapshot survives, also when the cycle
\* merged nothing) and last_updated is not None.
C4_CommitReplaces ==
    \A c \in Cycles :
        (pc[c] = "done" /\ ended[c] = "committed") =>
            /\ exists
            /\ Parses(file)
            /\ Load(file).odds = all_odds[c]
            /\ Load(file).last_updated # None

\* C4 witness: the second cycle of the loop has committed an empty mapping
C4_Witness ==
    /\ pc["sched"] = "done" /\ ended["sched"] = "committed"
    /\ run["sched"] = 2
    /\ all_odds["sched"] = <<>>
    /\ file = Dump([last_updated |-> 2, odds |-> <<>>])

\* C5: once the scheduled cycle and the triggered cycle have both committed, the
\* file holds the whole document of the commit that completed last.
C5_LastCommitWins ==
    (\A c \in Cycles : pc[c] \in {"done", "idle"} /\ ended[c] = "committed") =>
        (exists /\ file = Dump(lastCommit))

-----------------------------------------------------------------------------
(* Properties of compare_odds *)

\* every merged outcome of the returned list
MergedOutcomes ==
    UNION {UNION {{cmp_result[e].markets[m].outcomes[o]
                   : o \in 1..Len(cmp_result[e].markets[m].outcomes)}
                  : m \in 1..Len(cmp_result[e].markets)}
           : e \in 1..Len(cmp_result)}

\* the number a price stands for, as a sequence of one number, or of none when
\* the price is absent or no number; a table over the prices of the inputs
\* (every "+" of a string is dropped before it is read, so "1+2" reads 12)
QuotedNumber(price) ==
    IF price.k = "int" THEN <<price.i>>
    ELSE IF price = S(<<"+", "1", "2", "0">>) THEN <<120>>
    ELSE IF price = S(<<"-", "1", "1", "0">>) THEN <<0 - 110>>
    ELSE IF price = S(<<"1", "+", "2">>) THEN <<12>>
    ELSE <<>>

\* the positions of the bookmakers of a merged outcome that quote a number
Quoting(od) ==
    {b \in 1..Len(od.bookmakers) : QuotedNumber(od.bookmakers[b].val.price) # <<>>}

NumberAt(od, b) == QuotedNumber(od.bookmakers[b].val.price)[1]

\* the position of a bookmaker in the snapshot
SnapshotIndex(bookmaker) ==
    CHOOSE j \in 1..Len(cmp_args.sport_data) : cmp_args.sport_data[j].key = bookmaker

\* C6: for every merged outcome whose numeric prices are all non-zero, best_price
\* is the greatest numeric price and best_bookmaker is the first bookmaker, in
\* the order of the snapshot, that quotes it.
C6_BestPrice ==
    cmp_pc = "returned" =>
        \A od \in MergedOutcomes :
            (Quoting(od) # {} /\ \A b \in Quoting(od) : NumberAt(od, b) # 0) =>
                /\ od.has_best
                /\ \A b \in Quoting(od) : NumberAt(od, b) <= od.best_price
                /\ \E b \in Quoting(od) :
                     /\ NumberAt(od, b) = od.best_price
                     /\ od.bookmakers[b].key = od.best_bookmaker
                     /\ \A b2 \in Quoting(od) :
                          NumberAt(od, b2) = od.best_price =>
                              SnapshotIndex(od.bookmakers[b].key)
                                  <= SnapshotIndex(od.bookmakers[b2].key)

\* C6 witness: two bookmakers quote the same greatest price, one as a number and
\* one as a string, and the first of the snapshot is the best bookmaker
C6_Witness ==
    /\ cmp_pc = "returned"
    /\ Len(cmp_args.sport_data) >= 2
    /\ \E od \in MergedOutcomes :
         /\ Cardinality(Quoting(od)) >= 2
         /\ \A b \in Quoting(od) : NumberAt(od, b) = 120
         /\ \E b \in Quoting(od) : od.bookmakers[b].val.price.k = "str"
         /\ od.has_best /\ od.best_price = 120
         /\ od.best_bookmaker = cmp_args.sport_data[1].key

\* C7: a price of 0 is compared as a positive price: where the numeric prices of
\* a merged outcome are 0 and negative ones, 0 is the best price, in whatever
\* order the bookmakers come.
C7_ZeroIsPositiveClass ==
    cmp_pc = "returned" =>
        \A od \in MergedOutcomes :
            (/\ \E b \in Quoting(od) : NumberAt(od, b) = 0
             /\ \A b \in Quoting(od) : NumberAt(od, b) <= 0) =>
                (od.has_best /\ od.best_price = 0)

Quotes ==
    {q \in (1..Len(cmp_args.sport_data)) \X (1..2) \X (1..2) \X (1..2) :
        /\ cmp_args.sport_data[q[1]].val.has_events
        /\ q[2] <= Len(cmp_args.sport_data[q[1]].val.events)
        /\ q[3] <= Len(cmp_args.sport_data[q[1]].val.events[q[2]].markets)
        /\ q[4] <= Len(cmp_args.sport_data[q[1]].val.events[q[2]].markets[q[3]].outcomes)}

QEvent(q) == cmp_args.sport_data[q[1]].val.events[q[2]]
QMarket(q) == QEvent(q).markets[q[3]]
QOutcome(q) == QMarket(q).outcomes[q[4]]

\* the quote takes part in the merge: its event, market and outcome have a key
\* and pass the filters, and the bookmaker has no later item with the same key
\* (keys identify the items of a bookmaker)
Merged(q) ==
    /\ Truthy(EventKey(QEvent(q)))
    /\ EventMatches(EventKey(QEvent(q)), cmp_args.event_id)
    /\ Truthy(MarketKey(QMarket(q)))
    /\ MarketMatches(QMarket(q), cmp_args.market_type)
    /\ Truthy(QOutcome(q).name)
    /\ \A q2 \in Quotes :
         (q2[1] = q[1] /\ q2[2] > q[2]) => EventKey(QEvent(q2)) # EventKey(QEvent(q))
    /\ \A q2 \in Quotes :
         (q2[1] = q[1] /\ q2[2] = q[2] /\ q2[3] > q[3]) =>
             MarketKey(QMarket(q2)) # MarketKey(QMarket(q))
    /\ \A q2 \in Quotes :
         (q2[1] = q[1] /\ q2[2] = q[2] /\ q2[3] = q[3] /\ q2[4] > q[4]) =>
             QOutcome(q2).name # QOutcome(q).name

\* line 66 cannot raise on this call
NoFilterError ==
    \A q \in Quotes : ~FilterRaises(QMarket(q), cmp_args.market_type)

\* the merged outcome of a quote carries the bookmaker's entry, price and points
\* as quoted
Carried(q) ==
    \E e \in 1..Len(cmp_result) :
        /\ EventKey(cmp_result[e].event) = EventKey(QEvent(q))
        /\ \E m \in 1..Len(cmp_result[e].markets) :
             /\ MarketKey(cmp_result[e].markets[m].market) = MarketKey(QMarket(q))
             /\ \E od \in {cmp_result[e].markets[m].outcomes[o]
                           : o \in 1..Len(cmp_result[e].markets[m].outcomes)} :
                  /\ od.name = QOutcome(q).name
                  /\ HasKey(od.bookmakers, cmp_args.sport_data[q[1]].key)
                  /\ Get(od.bookmakers, cmp_args.sport_data[q[1]].key)
                        = [price |-> QOutcome(q).price, points |-> QOutcome(q).points]

\* C9: a bookmaker whose price for an outcome is absent or no number is never
\* the best bookmaker of that outcome, and the merged outcome still carries its
\* entry with the price and the points as quoted.
C9_AbsentPriceKeptNotSelected ==
    (cmp_pc = "returned" /\ NoFilterError) =>
        /\ \A od \in MergedOutcomes : \A b \in 1..Len(od.bookmakers) :
              QuotedNumber(od.bookmakers[b].val.price) = <<>> =>
                  ~(od.has_best /\ od.best_bookmaker = od.bookmakers[b].key)
        /\ \A q \in Quotes :
              (Merged(q) /\ QuotedNumber(QOutcome(q).price) = <<>>) => Carried(q)

\* C9 witness: the first bookmaker quotes an outcome without a price, the
\* second with one; the merged outcome carries both and the second is the best
C9_Witness ==
    /\ cmp_pc = "returned"
    /\ Len(cmp_args.sport_data) = 2
    /\ \E q \in Quotes :
         /\ q[1] = 1
         /\ Merged(q)
         /\ QOutcome(q).price = Null
         /\ Carried(q)
         /\ \E od \in MergedOutcomes :
              /\ od.name = QOutcome(q).name
              /\ Len(od.bookmakers) = 2
              /\ od.has_best
              /\ od.best_bookmaker = cmp_args.sport_data[2].key

\* C10: with an event filter, every event of the result has an id whose string
\* form is the filter.
C10_FilterMatchesIdOnly ==
    (cmp_pc = "returned" /\ Truthy(cmp_args.event_id)) =>
        \A e \in 1..Len(cmp_result) :
            /\ cmp_result[e].event.id.k # "null"
            /\ Str(cmp_result[e].event.id) = Str(cmp_args.event_id)

-----------------------------------------------------------------------------
(* Properties of the read handlers *)

\* the request was answered from a file that json.load accepts
Answered(handler) ==
    /\ api_pc = "responded"
    /\ api_req.handler = handler
    /\ Readable(api_req.store)

\* the sport of the request is a key of the snapshot, whatever the case
SportPresent ==
    \E j \in 1..Len(api_req.store.data.odds) :
        Lower(api_req.store.data.odds[j].key) = Lower(api_req.sport.s)

\* the events of the requested sport, over its bookmakers
SportEvents ==
    LET sd == FilterSport(api_req.store.data.odds, api_req.sport)[1].val
    IN UNION {IF sd[b].val.has_events
              THEN {sd[b].val.events[e] : e \in 1..Len(sd[b].val.events)}
              ELSE {}
              : b \in 1..Len(sd)}

\* the event passes the event filter of the request: its id, as a string, is it
PassesEventFilter(ev) ==
    api_req.event_id = Null
        \/ (ev.id # Null /\ Str(ev.id) = api_req.event_id.s)

\* the market passes the market filter of the request: its name contains it,
\* whatever the case
PassesMarketFilter(mk) ==
    api_req.market = Null
        \/ (mk.name.k = "str" /\ Contains(Lower(mk.name.s), Lower(api_req.market.s)))

\* results remain after filtering
ResultsRemain ==
    \E ev \in SportEvents :
        /\ PassesEventFilter(ev)
        /\ api_req.market # Null =>
              \E m \in 1..Len(ev.markets) : PassesMarketFilter(ev.markets[m])

\* C11: GET /compare answers 404 when the sport is not in the snapshot or when
\* no event passes the event filter or no market of any such event passes the
\* market filter, and 200 otherwise.
C11_NotFoundWithoutResults ==
    Answered("compare_bookmakers") =>
        api_resp.status = IF SportPresent /\ ResultsRemain THEN 200 ELSE 404

\* C12: a request that finds the snapshot file missing or unparsable is answered
\* as a request that finds the empty snapshot is: with the 404 of a snapshot
\* without data, not with an internal error.
C12_UnreadableFileReadsAsEmpty ==
    (api_pc = "responded" /\ ~Readable(api_req.store)) =>
        api_resp.status = 404

-----------------------------------------------------------------------------
(* Properties of the odds arithmetic *)

\* C13: for every American odds value a > 0 and every a < 0,
\* decimal_to_american(american_to_decimal(a)) is a.
C13_RoundTrip ==
    (math_pc = "returned" /\ math_call.fn = "round_trip" /\ math_call.arg # 0) =>
        /\ ~math_result.raised
        /\ math_result.value = Whole(math_call.arg)

\* the implied probability of American odds a # 0: 100 / (a + 100) for a > 0,
\* |a| / (|a| + 100) for a < 0
Implied(a) == IF a > 0 THEN Frac(100, a + 100) ELSE Frac(0 - a, 100 - a)

\* the decimal odds of American odds a # 0: the payout per unit staked
Decimal(a) == IF a > 0 THEN Frac(a + 100, 100) ELSE Frac(100 - a, 0 - a)

\* C14: for a non-empty list of non-zero odds, arbitrage_exists holds exactly
\* when the sum S of the implied probabilities is below 1; then the stakes sum
\* to 1 and stake times decimal odds is the same on every leg; otherwise the
\* result has no stakes and no profit, only S.
C14_Arbitrage ==
    (/\ math_pc = "returned"
     /\ math_call.fn = "arbitrage"
     /\ math_call.arg # <<>>
     /\ \A k \in 1..Len(math_call.arg) : math_call.arg[k] # 0) =>
        LET odds == math_call.arg
            total == Sum([k \in 1..Len(odds) |-> Implied(odds[k])])
            res == math_result.value
        IN /\ ~math_result.raised
           /\ res.arbitrage_exists = Less(total, Whole(1))
           /\ res.total_implied_probability = total
           /\ IF Less(total, Whole(1))
              THEN /\ Len(res.optimal_stakes) = Len(odds)
                   /\ Sum(res.optimal_stakes) = Whole(1)
                   /\ \A j, k \in 1..Len(odds) :
                         Times(res.optimal_stakes[j], Decimal(odds[j]))
                             = Times(res.optimal_stakes[k], Decimal(odds[k]))
              ELSE DOMAIN res = {"arbitrage_exists", "total_implied_probability"}

\* C14 witness: two legs of different odds with an arbitrage
C14_Witness ==
    /\ math_pc = "returned"
    /\ math_call.fn = "arbitrage"
    /\ Len(math_call.arg) = 2
    /\ math_call.arg[1] # math_call.arg[2]
    /\ \A k \in 1..2 : math_call.arg[k] # 0
    /\ ~math_result.raised
    /\ math_result.value.arbitrage_exists
    /\ math_result.value.optimal_stakes[1] # math_result.value.optimal_stakes[2]

-----------------------------------------------------------------------------
(* Properties of the adapters *)

\* the raw outcome, market, event can be read by the adapter: it is a dict and
\* so are the parts the adapter reads fields of
SoundOutcome(i, o) ==
    /\ o.shape = "dict"
    /\ Scrapers[i] = "BetMGM" => o.price_shape \in {"absent", "dict"}

SoundMarket(i, m) ==
    /\ m.shape = "dict"
    /\ m.outcomes_kind # "null"
    /\ \A k \in 1..Len(m.outcomes) : SoundOutcome(i, m.outcomes[k])

SoundEvent(i, e) ==
    /\ e.shape = "dict"
    /\ e.offers_kind # "null"
    /\ Scrapers[i] = "DraftKings" \/ e.teams_kind # "bad"

\* the page was fetched and its script carries the marker with valid JSON
Located(page) ==
    /\ page.fetch = "ok" /\ ~page.empty_body
    /\ page.marker /\ page.assignment /\ page.json_valid

\* every group of the payload is a dict whose events, if any, are a list
SoundGroups(payload) ==
    /\ payload.groups_kind # "null"
    /\ \A g \in 1..Len(payload.groups) :
          payload.groups[g].shape = "dict" /\ payload.groups[g].events_kind # "null"

\* the raw events of a payload
RawEvents(payload) ==
    UNION {{payload.groups[g].events[e] : e \in 1..Len(payload.groups[g].events)}
           : g \in 1..Len(payload.groups)}

RawMarkets(e) == {e.offers[m] : m \in 1..Len(e.offers)}

\* C15: in the result of scrape, a sport whose payload was located and whose
\* groups are sound holds exactly the sound raw events, each with exactly its
\* sound raw markets: a raw event or market that cannot be read is left out
\* alone, its siblings and the sport stay.
C15_ItemFailureContained ==
    scr_pc = "returned" =>
        \A k \in 1..Len(SportNames) :
            LET page == scr_call.pages[k]
                i == scr_call.adapter
            IN (Located(page) /\ SoundGroups(page.payload)) =>
                /\ HasKey(scr_results, SportNames[k])
                /\ LET events == Get(scr_results, SportNames[k]).events
                       sound == {e \in RawEvents(page.payload) : SoundEvent(i, e)}
                   IN /\ Len(events) = Cardinality(sound)
                      /\ \A e \in sound :
                            \E j \in 1..Len(events) :
                                /\ events[j].id = e.id
                                /\ LET kept == {m \in RawMarkets(e) : SoundMarket(i, m)}
                                   IN /\ Len(events[j].markets) = Cardinality(kept)
                                      /\ \A m \in kept :
                                            \E q \in 1..Len(events[j].markets) :
                                                events[j].markets[q].id = m.id

\* C15 witness: an event with a market that cannot be read and one that can,
\* next to a second event; the result has both events and the sound market
C15_Witness ==
    /\ scr_pc = "returned"
    /\ Located(scr_call.pages[1])
    /\ SoundGroups(scr_call.pages[1].payload)
    /\ \E e \in RawEvents(scr_call.pages[1].payload) :
         /\ SoundEvent(scr_call.adapter, e)
         /\ \E m \in RawMarkets(e) : ~SoundMarket(scr_call.adapter, m)
         /\ \E m \in RawMarkets(e) : SoundMarket(scr_call.adapter, m)
         /\ HasKey(scr_results, SportNames[1])
         /\ \E j \in 1..Len(Get(scr_results, SportNames[1]).events) :
              /\ Get(scr_results, SportNames[1]).events[j].id = e.id
              /\ Len(Get(scr_results, SportNames[1]).events[j].markets) = 1
    /\ Len(Get(scr_results, SportNames[1]).events) = 2

\* C16 as stated: a sport is a key of the result of scrape exactly when its
\* document was fetched and the marker with valid JSON was located.
C16_PresentIffLocated ==
    scr_pc = "returned" =>
        \A k \in 1..Len(SportNames) :
            HasKey(scr_results, SportNames[k]) <=> Located(scr_call.pages[k])

\* C16 as amended: a sport is a key of the result of scrape exactly when its
\* document was fetched, the marker with valid JSON was located and the groups
\* of the payload could be walked; it is then present also with zero events,
\* with an empty list.
C16_PresentIffLocatedAndWalked ==
    scr_pc = "returned" =>
        \A k \in 1..Len(SportNames) :
            LET page == scr_call.pages[k] IN
            /\ HasKey(scr_results, SportNames[k])
                  <=> (Located(page) /\ SoundGroups(page.payload))
            /\ (Located(page) /\ SoundGroups(page.payload)
                  /\ RawEvents(page.payload) = {}) =>
                  /\ Get(scr_results, SportNames[k]).has_events
                  /\ Get(scr_results, SportNames[k]).events = <<>>

\* C16 witness: the first sport was located with a group of zero events and is
\* present with an empty list, the second was not fetched and is absent
C16_Witness ==
    /\ scr_pc = "returned"
    /\ Located(scr_call.pages[1])
    /\ scr_call.pages[1].payload.groups # <<>>
    /\ SoundGroups(scr_call.pages[1].payload)
    /\ RawEvents(scr_call.pages[1].payload) = {}
    /\ HasKey(scr_results, SportNames[1])
    /\ Get(scr_results, SportNames[1]).events = <<>>
    /\ ~Located(scr_call.pages[2])
    /\ ~HasKey(scr_results, SportNames[2])

\* the first k sports of sports_urls
FirstSports(k) == [j \in 1..k |-> SportNames[j]]

\* C17: a fetch that fails (status, network error, time-out) does not end
\* scrape: the loop attempts every sport in the order of sports_urls, scrape
\* returns, and its result has the sports that answered and not the failed ones.
C17_TransportFailureNotFatal ==
    /\ scr_pc = "loop" =>
          /\ scr_attempted = FirstSports(scr_k - 1)
          /\ ENABLED NextScrape
    /\ scr_pc = "returned" =>
          /\ scr_attempted = SportNames
          /\ \A k \in 1..Len(SportNames) :
                LET page == scr_call.pages[k] IN
                /\ page.fetch # "ok" => ~HasKey(scr_results, SportNames[k])
                /\ (Located(page) /\ SoundGroups(page.payload)) =>
                      HasKey(scr_results, SportNames[k])

\* C17 witness: the first sport timed out, the third met a network error, the
\* second and the last answered and are in the result
C17_Witness ==
    /\ scr_pc = "returned"
    /\ scr_call.pages[1].fetch = "timeout"
    /\ scr_call.pages[3].fetch = "error"
    /\ scr_attempted = SportNames
    /\ HasKey(scr_results, SportNames[2])
    /\ HasKey(scr_results, SportNames[Len(SportNames)])
    /\ ~HasKey(scr_results, SportNames[1])

-----------------------------------------------------------------------------
(* Properties of the fan-out and fan-in of run_scrapers *)

AllEnded(c) == \A i \in AdapterIds : results[c][i].st \in {"raised", "returned"}

\* C19: all scrapes of a cycle are launched together; results are processed and
\* update_odds_file is entered only once every adapter has returned or raised,
\* with the mapping built from all that returned; no adapter is running while
\* the commit is under way; and update_odds_file ends once in a cycle.
C19_FanInBeforeCommit ==
    /\ [](\A c \in Cycles :
            pc[c] \in {"update", "loaded", "writing", "done"} =>
                /\ AllEnded(c)
                /\ all_odds[c] = ProcessResults(results[c]))
    /\ [][\A c \in Cycles :
            /\ (pc[c] = "idle" /\ pc'[c] # "idle") =>
                  /\ pc'[c] = "gather"
                  /\ \A i \in AdapterIds : results'[c][i].st = "pending"
            /\ (pc[c] # "update" /\ pc'[c] = "update") =>
                  (pc[c] = "gather" /\ AllEnded(c) /\ results'[c] = results[c])
            /\ ended'[c] # ended[c] =>
                  \/ ended'[c] = "none" /\ pc'[c] = "gather"
                  \/ ended[c] = "none" /\ pc[c] \in {"loaded", "writing"} /\ pc'[c] = "done"
            /\ (pc[c] = "done" /\ pc'[c] # "done") => ended[c] # "none"]_vars

\* C19 witness: a cycle has committed after one adapter raised and two
\* returned; the commit holds what the two returned
C19_Witness ==
    /\ pc["sched"] = "done"
    /\ ended["sched"] = "committed"
    /\ results["sched"][1].st = "raised"
    /\ results["sched"][2].st = "returned"
    /\ results["sched"][3].st = "returned"
    /\ results["sched"][2].val # <<>>
    /\ lastCommit.odds = ProcessResults(results["sched"])
    /\ file = Dump(lastCommit)

-----------------------------------------------------------------------------
(* Properties of the error handling of compare_odds *)

\* the events of the call, merged over the bookmakers (lines 26-52)
CallEvents == AllEvents(<<>>, cmp_args.sport_data, 1, cmp_args.event_id)

\* the merged events with a keyed market on which the filter of line 66 raises
FailingEvents ==
    {e \in 1..Len(CallEvents) :
        \E b \in 1..Len(CallEvents[e].val.bookmakers) :
            LET markets == CallEvents[e].val.bookmakers[b].val IN
            \E k \in 1..Len(markets) :
                /\ Truthy(MarketKey(markets[k]))
                /\ Truthy(cmp_args.market_type)
                /\ markets[k].name.k # "str"}

\* the number of events before the first failing one
BuiltBeforeError ==
    IF FailingEvents = {} THEN Len(CallEvents)
    ELSE (CHOOSE e \in FailingEvents : \A f \in FailingEvents : e <= f) - 1

\* C20: compare_odds returns a list whatever happens; when an event raises while
\* its markets are merged, the list holds the complete comparisons of the events
\* before it, in order, and nothing of the failing event or of the events after
\* it; the list carries no sign of the error.
C20_ErrorTruncatesSilently ==
    cmp_pc = "returned" =>
        /\ DOMAIN cmp_result = 1..BuiltBeforeError
        /\ \A e \in 1..BuiltBeforeError :
              cmp_result[e] =
                  EventComparison(CallEvents[e].val,
                      AllMarkets([raised |-> FALSE, all_markets |-> <<>>],
                                 CallEvents[e].val.bookmakers, 1,
                                 cmp_args.market_type).all_markets)

\* C20 witness: the second of two events has a market with a null name while a
\* market filter is given; the list returned holds the first event alone
C20_Witness ==
    /\ cmp_pc = "returned"
    /\ Len(CallEvents) = 2
    /\ FailingEvents = {2}
    /\ Len(cmp_result) = 1
    /\ cmp_result[1].event.id = CallEvents[1].val.id
    /\ \E k \in 1..Len(CallEvents[2].val.bookmakers[1].val) :
          CallEvents[2].val.bookmakers[1].val[k].name = Null

-----------------------------------------------------------------------------
(* Properties of the report of a cycle whose commit failed *)

\* the commit of the cycle ended in the except clause of update_odds_file
CommitFailed(c) == pc[c] = "done" /\ ended[c] = "aborted"

\* the file does not hold the document of the cycle: after a failed open it is
\* as the cycle found it, after a failed write it lacks part of the text
NotReplaced(c) ==
    IF outbuf[c] = <<>>
    THEN existing_data[c] = (IF exists /\ Parses(file) THEN Load(file) ELSE EmptySnapshot)
    ELSE /\ file # outbuf[c]
         /\ ~(exists /\ Parses(file) /\ Load(file).odds = all_odds[c]
                /\ Load(file).last_updated = existing_data[c].last_updated)

\* C21: the error of a failed commit is absorbed by update_odds_file: the step
\* that fails writes nothing more and records no commit, the file does not hold
\* the document of the cycle, and yet run_scrapers returns to its caller, which
\* reports success: POST /trigger-scrape answers 200 with its success message,
\* the one-shot scrape mode prints its completion message and the schedule loop
\* logs no error.
C21_FailedCommitReportedAsSuccess ==
    /\ [](\A c \in Cycles : CommitFailed(c) => NotReplaced(c))
    /\ [][\A c \in Cycles :
            /\ (ended'[c] = "aborted" /\ ended[c] # "aborted") =>
                  /\ file' = file
                  /\ exists' = exists
                  /\ lastCommit' = lastCommit
            /\ (CommitFailed(c) /\ pc'[c] # "done") =>
                  /\ pc'[c] = "idle"
                  /\ file' = file
                  /\ lastCommit' = lastCommit
                  /\ c = "trig" =>
                        /\ reported'[c].status = 200
                        /\ reported'[c].text = "Scraping process triggered successfully"
                  /\ (c = "sched" /\ mode = "scrape") =>
                        reported'[c].text =
                            "Scrapers completed successfully. Data saved to data/odds.json"
                  /\ (c = "sched" /\ mode = "schedule") =>
                        reported'[c].text # "Error in scheduler"]_vars

\* C21 witness: a cycle triggered through the API failed while writing and left
\* a file that cannot be parsed, where a snapshot had been; no commit was
\* recorded; the handler has answered 200 with the success message
C21_Witness ==
    /\ pc["trig"] = "idle"
    /\ run["trig"] = 1
    /\ ended["trig"] = "aborted"
    /\ reported["trig"].status = 200
    /\ reported["trig"].text = "Scraping process triggered successfully"
    /\ lastCommit = EmptySnapshot
    /\ exists
    /\ ~Parses(file)

\* the one-shot scrape mode has printed its completion message after a commit
\* that failed at the open: the file is still missing
C21_WitnessOnce ==
    /\ mode = "scrape"
    /\ pc["sched"] = "idle"
    /\ ended["sched"] = "aborted"
    /\ reported["sched"].text =
          "Scrapers completed successfully. Data saved to data/odds.json"
    /\ ~exists

====
